---- MODULE Spec2Model ----
(***************************************************************************)
(* Model of the trovelore order dashboard: the orders / blocks / buyers    *)
(* tables behind the API route handlers, the Shopify sync endpoint         *)
(* (POST /api/sync, processOrders), the Shopify client's retryOperation    *)
(* and the payment-recording page.                                         *)
(*                                                                         *)
(* Amounts are whole currency units, timestamps are small integers.  The   *)
(* database is the hosted Postgres behind the Supabase client: a statement *)
(* either takes effect or returns an error, one statement at a time.       *)
(***************************************************************************)
EXTENDS Integers, Sequences, FiniteSets, TLC

\* ------------------------------------------------------------------ bounds
MaxTime == 2          \* created_at values an upstream order can take: 1..MaxTime
MaxManualId == 2      \* the identity sequence of orders.id stops here
MaxBlockId == 1       \* block ids 1..MaxBlockId
QuarterTotal == 1     \* a quarter of an order's total_topay
MaxFailures == 2      \* database calls of the schema setup that may fail
MaxProducts == 2      \* product rows of the new-order form
MaxEvents == 2        \* clicks and keystrokes on the orders table

\* ------------------------------------------------------- program constants
DEBOUNCE_MS == 500    \* the setTimeout delay of the search debounce
RETRY_ATTEMPTS == 3
RETRY_DELAY == 1000

\* SQL NULL / JavaScript null (ids, timestamps and amounts are all >= 0)
Null == -1

\* The upstream (Shopify) orders, by order_number; rawOrder.id is the
\* external identifier that becomes orders.shopify_id.
OrderNumbers == {1, 2}
ShopifyIdOf(n) == 100 + n
ShopifyIds == {ShopifyIdOf(n) : n \in OrderNumbers}
BatchSizes == {1, 2}
BlockIds == 1..MaxBlockId
BuyerIds == {1}
\* the buyers and the buyer numbers of the buyer-number handlers
AllBuyerIds == {1, 2}
BuyerNos == {7, 8}
OrderTotal == 4 * QuarterTotal

VARIABLES
  orders,     \* the orders table: a set of rows
  blocks,     \* the blocks table: the set of block ids
  buyers,     \* the buyers table: a set of rows [id, buyer_no]
  nextId,     \* next value of the identity sequence of orders.id
  upstream,   \* Shopify: order_number -> [created_at, financial_status]
  sync,       \* the running / last POST /api/sync request
  resp,       \* the last HTTP response of a CRUD route handler
  page,       \* the payment-recording page (RecordPaymentPage) state
  retry,      \* one retryOperation call
  auth,       \* Supabase auth users, user_profiles, the session and the AuthProvider context
  view,       \* the guarded page being shown and what RoleGuard rendered
  schema,     \* the columns, indexes and tables the schema setup has added
  setup,      \* the running / last POST /api/db-setup request
  reqs,       \* concurrent POST /api/sync requests, statement by statement
  del,        \* a DELETE /api/blocks request, statement by statement
  tabs,       \* the record-payment page of each browser session
  list,       \* GET /api/orders: the rows listed, the last request and its answer
  tbl,        \* the OrdersTable component: its state, timers and requests in flight
  form        \* the new-order form

vars == <<orders, blocks, buyers, nextId, upstream, sync, resp, page, retry, auth, view,
          schema, setup, reqs, del, tabs, list, tbl, form>>

\* the state outside the order-management handlers
others == <<auth, view, schema, setup, reqs, del, tabs, list, tbl, form>>

\* the state of the order-management handlers
base == <<orders, blocks, buyers, nextId, upstream, sync, resp, page, retry>>

\* ------------------------------------------------------------ small helpers
Min(a, b) == IF a < b THEN a ELSE b

RECURSIVE SeqOfSet(_)
\* the elements of a finite set of integers as an ascending sequence
SeqOfSet(S) ==
  IF S = {} THEN <<>>
  ELSE LET m == CHOOSE x \in S : \A y \in S : x <= y
       IN <<m>> \o SeqOfSet(S \ {m})

\* JavaScript truthiness of a nullable number: neither null nor 0
Truthy(x) == x /= Null /\ x /= 0

\* --------------------------------------------------------- Shopify mapping
\* variant: the mapping leaves id to the database's identity sequence
MappedOrderNoId(n, raw) ==
  [ id |-> Null, created_at |-> raw.created_at, block_id |-> Null, buyer_id |-> Null,
    total_topay |-> OrderTotal,
    payment_status |-> IF raw.financial_status = "paid"
                       THEN "Deposit Paid" ELSE "No Payment Received",
    payment_1 |-> Null, payment_2 |-> Null, payment_3 |-> Null, payment_4 |-> Null,
    shopify_id |-> ShopifyIdOf(n), source |-> "Shopify" ]

\* mappedOrder of fetchShopifyOrders: the row built from a raw Shopify order
MappedOrder(n, raw) ==
  [ id             |-> n,
    created_at     |-> raw.created_at,
    block_id       |-> Null,
    buyer_id       |-> Null,
    total_topay    |-> OrderTotal,
    payment_status |-> IF raw.financial_status = "paid"
                       THEN "Deposit Paid" ELSE "No Payment Received",
    payment_1      |-> Null,
    payment_2      |-> Null,
    payment_3      |-> Null,
    payment_4      |-> Null,
    shopify_id     |-> ShopifyIdOf(n),
    source         |-> "Shopify" ]

\* one page of mapped orders: order numbers above sinceId, at most batchSize
PageNumbers(sinceId, batchSize) ==
  LET rest == {n \in OrderNumbers : sinceId = Null \/ n > sinceId}
      s    == SeqOfSet(rest)
  IN SubSeq(s, 1, Min(batchSize, Len(s)))

FetchPage(sinceId, batchSize) ==
  LET ns   == PageNumbers(sinceId, batchSize)
      rest == {n \in OrderNumbers : sinceId = Null \/ n > sinceId}
  IN [ orders      |-> [i \in 1..Len(ns) |-> MappedOrder(ns[i], upstream[ns[i]])],
       hasMore     |-> Len(ns) < Cardinality(rest),
       nextSinceId |-> IF Len(ns) = 0 THEN sinceId ELSE ns[Len(ns)] ]

FetchAll ==
  LET ns == SeqOfSet(OrderNumbers)
  IN [i \in 1..Len(ns) |-> MappedOrder(ns[i], upstream[ns[i]])]

\* ---------------------------------------------------------------- database
\* .from("orders").select(...).eq(col, v)
SelectOrdersEq(col, v) == {r \in orders : r[col] = v}

\* the id a row gets on insert: the supplied one, else the identity sequence
InsertedId(row) == IF row.id = Null THEN nextId ELSE row.id

\* orders.id is the primary key: an insert of an id already present fails
InsertConflict(row) == \E r \in orders : r.id = InsertedId(row)

\* the table after .insert(row)
InsertOrder(row) == orders \cup {[row EXCEPT !.id = InsertedId(row)]}

\* variant: the update drops the matched row
UpdateOrderLosesRow(id, newRow) == {r \in orders : r.id /= id}

\* the table after .update(newRow).eq("id", id): every matching row becomes newRow
UpdateOrder(id, newRow) ==
  {r \in orders : r.id /= id} \cup {newRow : r \in SelectOrdersEq("id", id)}

\* the table after .delete().eq("id", id)
DeleteOrder(id) == {r \in orders : r.id /= id}

\* ------------------------------------------------------------------- Init
\* a manual order as the new-order form submits it (no id, no shopify_id)
ManualOrder(blockId, buyerId) ==
  [ id |-> Null, created_at |-> Null, block_id |-> blockId, buyer_id |-> buyerId,
    total_topay |-> OrderTotal, payment_status |-> "No Payment Received",
    payment_1 |-> Null, payment_2 |-> Null, payment_3 |-> Null, payment_4 |-> Null,
    shopify_id |-> Null, source |-> "Manual" ]

\* "no row": the null a failed lookup leaves in the page's order state
NoOrder == [ManualOrder(Null, Null) EXCEPT !.source = "none"]

IdleSync ==
  [ pc |-> "idle", force |-> FALSE, full |-> FALSE, batchSize |-> 1,
    queue |-> <<>>, lastLen |-> 0, hasMore |-> FALSE, sinceId |-> Null,
    new |-> 0, updated |-> 0, skipped |-> 0, errors |-> 0, total |-> 0,
    success |-> TRUE, fetchFailed |-> FALSE, last |-> "none",
    runs |-> 0, prev |-> "none", pageNo |-> 1, delays |-> 0 ]

NoResp == [op |-> "none", status |-> 0, id |-> Null]
NoErr == [kind |-> "none", status |-> 0, retryAfter |-> Null]
NoPage == [pc |-> "closed", saved |-> FALSE, order |-> NoOrder,
           paymentType |-> "deposit", paymentAmount |-> 0]
NoRetry == [pc |-> "idle", attempts |-> 0, delay |-> 0, calls |-> 0,
            err |-> NoErr, slept |-> <<>>, log |-> <<>>]

\* ROLES of lib/auth.ts and the users that can exist
Roles == {"admin", "portugal_office", "viewer"}
UserIds == {1, 2}

\* "no user": the null of getCurrentUser and of the AuthProvider context
NoUser == [id |-> Null, role |-> "none"]

\* one administrator exists, nobody is signed in, the AuthProvider has just
\* mounted (loading) and no guarded page is open
InitAuth ==
  [ accounts |-> {1},
    profiles |-> [u \in UserIds |-> IF u = 1 THEN "admin" ELSE "none"],
    session  |-> Null,
    user     |-> NoUser,
    loading  |-> TRUE ]

InitView == [page |-> "none", shown |-> "none", pushed |-> ""]

\* the concurrent sync requests; none has started
Requests == {1, 2}
IdleReq ==
  [ pc |-> "idle", queue |-> <<>>, existing |-> {},
    new |-> 0, updated |-> 0, skipped |-> 0, errors |-> 0, conflicts |-> 0 ]

\* the browser sessions that open the record-payment page
Sessions == {1, 2}

\* GET /api/orders has not been called and lists no row
NoParams == [page |-> 1, pageSize |-> 1, orderBy |-> "order_date", order |-> "desc",
             search |-> <<>>, ship_status |-> "", payment_status |-> ""]
NoList == [rows |-> {}, params |-> NoParams, status |-> 0, data |-> <<>>, totalPages |-> 0]

\* columnFilters: empty, or the one filter the search box or the menu sets
NoFilter == [id |-> "", value |-> ""]

\* getCacheKey: pagination, sorting and columnFilters (the page size stays 10)
CacheKey(pageIndex, desc, filter) ==
  [pageIndex |-> pageIndex, desc |-> desc, filter |-> filter]

\* the rows of a response: the page asked for, as the table was after `epoch`
\* syncs; NoRows is the empty list
Rows(key, epoch) == [key |-> key, epoch |-> epoch]
NoRows == Rows(CacheKey(Null, TRUE, NoFilter), Null)

\* the OrdersTable component before it is mounted: its initial state
NoTable ==
  [pc |-> "unmounted", pageIndex |-> 0, desc |-> TRUE, filter |-> NoFilter,
   refreshTrigger |-> 0, cache |-> {}, data |-> NoRows, pageCount |-> 0,
   loading |-> TRUE, localSearchTerm |-> "", timers |-> {}, cleared |-> {},
   dirty |-> FALSE, inflight |-> {}, requested |-> {}, repeated |-> {},
   sent |-> {},
   epoch |-> 0, syncStatus |-> "idle", events |-> 0]

\* the new-order form is not open
NoForm == [pc |-> "closed"]

\* no DELETE /api/blocks request is in progress
NoDelete == [pc |-> "idle", id |-> Null]

\* no db-setup request has run
IdleSetup ==
  [ pc |-> "idle", group |-> 0, queue |-> <<>>, success |-> FALSE,
    failed |-> FALSE, changed |-> FALSE, prevFailed |-> FALSE,
    runs |-> 0, failures |-> 0 ]

Init ==
  /\ orders = {}
  /\ blocks = {}
  /\ buyers = {}
  /\ nextId = 1
  /\ upstream = [n \in OrderNumbers |->
                   [created_at |-> 1,
                    financial_status |-> IF n = 1 THEN "paid" ELSE "pending"]]
  /\ sync = IdleSync
  /\ resp = NoResp
  /\ page = NoPage
  /\ retry = NoRetry
  /\ auth = InitAuth
  /\ view = InitView
  /\ schema = {}
  /\ setup = IdleSetup
  /\ reqs = [r \in Requests |-> IdleReq]
  /\ del = NoDelete
  /\ tabs = [s \in Sessions |-> NoPage]
  /\ list = NoList
  /\ tbl = NoTable
  /\ form = NoForm

\* the initial state of everything but the listing, the table and the form
InitElse ==
  /\ orders = {}
  /\ blocks = {}
  /\ buyers = {}
  /\ nextId = 1
  /\ upstream = [n \in OrderNumbers |->
                   [created_at |-> 1,
                    financial_status |-> IF n = 1 THEN "paid" ELSE "pending"]]
  /\ sync = IdleSync
  /\ resp = NoResp
  /\ page = NoPage
  /\ retry = NoRetry
  /\ auth = InitAuth
  /\ view = InitView
  /\ schema = {}
  /\ setup = IdleSetup
  /\ reqs = [r \in Requests |-> IdleReq]
  /\ del = NoDelete
  /\ tabs = [s \in Sessions |-> NoPage]

\* ------------------------------------------------- POST /api/sync (route.ts)
\* existingOrders of processOrders: the duplicate check by shopify_id
ExistingOrders(shopifyId) == SelectOrdersEq("shopify_id", shopifyId)

\* variant: an order with the same timestamp counts as newer
IsNewerOrSame(order, existingOrder) == order.created_at >= existingOrder.created_at

\* "If the order in Shopify is newer than our record, update it"
IsNewer(order, existingOrder) == order.created_at > existingOrder.created_at

\* variant: an error discards what the sync has written
OrderFailedRollback ==
  [table |-> {r \in orders : r.source /= "Shopify"}, nextId |-> nextId, outcome |-> "error"]

\* the error branches of the loop body: errorOrdersCount++ and "continue";
\* the table keeps what earlier iterations wrote
OrderFailed == [table |-> orders, nextId |-> nextId, outcome |-> "error"]

\* The write of one iteration of processOrders, given the rows the duplicate
\* lookup returned: update a stored order that is older, skip one that is
\* not, insert when none was found.  writeOk: no insertError / updateError.
WriteOrder(order, existingOrders, writeOk) ==
  IF existingOrders /= {} THEN
       LET existingOrder == CHOOSE r \in existingOrders : TRUE
       IN IF IsNewer(order, existingOrder)
          THEN IF writeOk
               THEN [table |-> UpdateOrder(existingOrder.id, order),
                     nextId |-> nextId, outcome |-> "updated"]
               ELSE OrderFailed
          ELSE [table |-> orders, nextId |-> nextId, outcome |-> "skipped"]
  ELSE IF writeOk /\ ~InsertConflict(order)
       THEN [table |-> InsertOrder(order),
             nextId |-> IF order.id = Null THEN nextId + 1 ELSE nextId,
             outcome |-> "new"]
       ELSE OrderFailed

\* One iteration of the loop of processOrders.  lookupOk / writeOk are the
\* database's answers (no checkError / no insertError or updateError).
\* The result is the table afterwards and the counter that was incremented.
ProcessOrder(order, forceProcess, lookupOk, writeOk) ==
  IF order.shopify_id = Null THEN OrderFailed
  ELSE IF ~forceProcess /\ ~lookupOk THEN OrderFailed
  ELSE WriteOrder(order,
                  IF forceProcess THEN {} ELSE ExistingOrders(order.shopify_id),
                  writeOk)

\* the counters of the request after one processed order
Count(s, outcome) ==
  [s EXCEPT !.new     = @ + (IF outcome = "new" THEN 1 ELSE 0),
            !.updated = @ + (IF outcome = "updated" THEN 1 ELSE 0),
            !.skipped = @ + (IF outcome = "skipped" THEN 1 ELSE 0),
            !.errors  = @ + (IF outcome = "error" THEN 1 ELSE 0),
            !.last    = outcome]

\* the request returns its JSON summary
Respond(s) == [s EXCEPT !.pc = "done", !.runs = Min(@ + 1, 2)]

\* history: the upstream order set or the set of rows was changed from outside
\* the sync; a run in progress then does not count as a run over unchanged data
Disturbed(s) == [s EXCEPT !.runs = IF s.pc \in {"idle", "done"} THEN 0 ELSE -1]

\* history: how the previous request ended: "failed" (a fetch from Shopify
\* failed), "errors" (every page fetched, some order counted as error), "clean"
Ended(s) ==
  IF s.pc /= "done" THEN "none"
  ELSE IF s.fetchFailed \/ ~s.success THEN "failed"
  ELSE IF s.errors > 0 THEN "errors"
  ELSE "clean"

SyncStart(forceProcess, fullSync, batchSize) ==
  /\ sync.pc \in {"idle", "done"}
  /\ fullSync => batchSize = 1
  /\ sync' = [IdleSync EXCEPT !.pc = "fetch", !.force = forceProcess,
                              !.full = fullSync, !.batchSize = batchSize,
                              !.runs = sync.runs, !.prev = Ended(sync)]
  /\ UNCHANGED <<orders, blocks, buyers, nextId, upstream, resp, page, retry, others>>

\* fetchAllShopifyOrders / fetchShopifyOrders(page, batchSize, sinceId, ...)
SyncFetch(ok) ==
  /\ sync.pc = "fetch"
  /\ sync' =
       IF sync.full
       THEN IF ok
            THEN [sync EXCEPT !.pc = "process", !.queue = FetchAll,
                              !.lastLen = Len(FetchAll)]
            ELSE Respond([sync EXCEPT !.success = FALSE, !.fetchFailed = TRUE])
       ELSE IF ok
            THEN LET result == FetchPage(sync.sinceId, sync.batchSize)
                 IN [sync EXCEPT !.pc = "process", !.queue = result.orders,
                                 !.lastLen = Len(result.orders),
                                 !.hasMore = result.hasMore,
                                 !.sinceId = result.nextSinceId]
            ELSE Respond([sync EXCEPT !.errors = @ + sync.lastLen,
                                      !.fetchFailed = TRUE])
  /\ UNCHANGED <<orders, blocks, buyers, nextId, upstream, resp, page, retry, others>>

\* one iteration of "for (const order of orders)" in processOrders
SyncProcess(lookupOk, writeOk) ==
  /\ sync.pc = "process"
  /\ sync.queue /= <<>>
  /\ LET res == ProcessOrder(Head(sync.queue), sync.force, lookupOk, writeOk)
     IN /\ orders' = res.table
        /\ nextId' = res.nextId
        /\ sync' = Count([sync EXCEPT !.queue = Tail(@)], res.outcome)
  /\ UNCHANGED <<blocks, buyers, upstream, resp, page, retry, others>>

\* variant: the next page is requested without the delay
SyncBatchDoneNoDelay ==
  /\ sync.pc = "process"
  /\ sync.queue = <<>>
  /\ LET s == [sync EXCEPT !.total = @ + sync.lastLen,
                           !.pageNo = IF sync.full THEN @ ELSE @ + 1]
     IN sync' = IF ~sync.full /\ sync.hasMore
                THEN [s EXCEPT !.pc = "fetch"]
                ELSE Respond(s)
  /\ UNCHANGED <<orders, blocks, buyers, nextId, upstream, resp, page, retry, others>>

\* processOrders returned: totals are added up and page++, then the delay
\* before the next page, or the end
SyncBatchDone ==
  /\ sync.pc = "process"
  /\ sync.queue = <<>>
  /\ LET s == [sync EXCEPT !.total = @ + sync.lastLen,
                           !.pageNo = IF sync.full THEN @ ELSE @ + 1]
     IN sync' = IF ~sync.full /\ sync.hasMore
                THEN [s EXCEPT !.pc = "delay"]
                ELSE Respond(s)
  /\ UNCHANGED <<orders, blocks, buyers, nextId, upstream, resp, page, retry, others>>

\* await new Promise(resolve => setTimeout(resolve, 500))
SyncDelay ==
  /\ sync.pc = "delay"
  /\ sync' = [sync EXCEPT !.pc = "fetch", !.delays = @ + 1]
  /\ UNCHANGED <<orders, blocks, buyers, nextId, upstream, resp, page, retry, others>>

\* Shopify reports a later created_at for an order
UpstreamTouch(n) ==
  /\ upstream[n].created_at < MaxTime
  /\ upstream' = [upstream EXCEPT ![n].created_at = @ + 1]
  /\ sync' = Disturbed(sync)
  /\ UNCHANGED <<orders, blocks, buyers, nextId, resp, page, retry, others>>

\* ------------------------------------------------------ /api/orders (route.ts)
\* the row with the given columns overwritten
ApplyUpdates(row, updates) ==
  [f \in DOMAIN row |-> IF f \in DOMAIN updates THEN updates[f] ELSE row[f]]

\* .single(): the one row of a result, an error (no data) otherwise
Single(found) == IF Cardinality(found) = 1 THEN CHOOSE r \in found : TRUE ELSE NoOrder

\* fetchOrderById: .select('*').eq('id', id).single()
FetchOrderById(id) == Single(SelectOrdersEq("id", id))

\* variant: the insert is not followed by .select().single(), no row comes back
OrdersPOSTNoSelect(body, ok) ==
  /\ nextId <= MaxManualId
  /\ LET success == ok /\ ~InsertConflict(body)
     IN /\ orders' = IF success THEN InsertOrder(body) ELSE orders
        /\ nextId' = IF ok /\ body.id = Null THEN nextId + 1 ELSE nextId
        /\ resp' = [op |-> "POST /api/orders", status |-> IF success THEN 200 ELSE 400,
                    id |-> Null]
  /\ UNCHANGED <<blocks, buyers, upstream, sync, page, retry, others>>

OrdersPOST(body, ok) ==
  /\ nextId <= MaxManualId
  /\ LET success == ok /\ ~InsertConflict(body)
     IN /\ orders' = IF success THEN InsertOrder(body) ELSE orders
        /\ nextId' = IF ok /\ body.id = Null THEN nextId + 1 ELSE nextId
        /\ resp' = IF success
                   THEN [op |-> "POST /api/orders", status |-> 200, id |-> InsertedId(body)]
                   ELSE [op |-> "POST /api/orders", status |-> 400, id |-> Null]
  /\ UNCHANGED <<blocks, buyers, upstream, sync, page, retry, others>>

OrdersPATCH(id, updates, ok) ==
  /\ LET found == SelectOrdersEq("id", id)
         success == ok /\ Cardinality(found) = 1
     IN /\ orders' = IF ok
                     THEN {r \in orders : r.id /= id} \cup {ApplyUpdates(r, updates) : r \in found}
                     ELSE orders
        /\ resp' = [op |-> "PATCH /api/orders", status |-> IF success THEN 200 ELSE 400,
                    id |-> IF success THEN id ELSE Null]
  /\ UNCHANGED <<blocks, buyers, nextId, upstream, sync, page, retry, others>>

OrdersDELETE(id, ok) ==
  /\ orders' = IF ok THEN DeleteOrder(id) ELSE orders
  /\ resp' = [op |-> "DELETE /api/orders", status |-> IF ok THEN 204 ELSE 400, id |-> Null]
  /\ sync' = IF orders' /= orders THEN Disturbed(sync) ELSE sync
  /\ UNCHANGED <<blocks, buyers, nextId, upstream, page, retry, others>>

\* ------------------------------------- /api/blocks and /api/buyers (DELETE)
\* variant: the check for linked orders finds nothing
LinkedOrdersNone(col, id) == {}

\* linkedOrders: .from('orders').select('id').eq(col, id).limit(1)
LinkedOrders(col, id) == SelectOrdersEq(col, id)

\* the status of a DELETE of a block or buyer, and whether the row is deleted
DeleteDecision(col, id, checkOk, ok) ==
  IF ~checkOk THEN [status |-> 500, deleted |-> FALSE]
  ELSE IF LinkedOrders(col, id) /= {} THEN [status |-> 400, deleted |-> FALSE]
  ELSE IF ~ok THEN [status |-> 400, deleted |-> FALSE]
  ELSE [status |-> 204, deleted |-> TRUE]

BlocksPOST(id, ok) ==
  /\ id \notin blocks
  /\ blocks' = IF ok THEN blocks \cup {id} ELSE blocks
  /\ resp' = [op |-> "POST /api/blocks", status |-> IF ok THEN 200 ELSE 400,
              id |-> IF ok THEN id ELSE Null]
  /\ UNCHANGED <<orders, buyers, nextId, upstream, sync, page, retry, others>>

BlocksDELETE(id, checkOk, ok) ==
  /\ LET d == DeleteDecision("block_id", id, checkOk, ok)
     IN /\ blocks' = IF d.deleted THEN blocks \ {id} ELSE blocks
        /\ resp' = [op |-> "DELETE /api/blocks", status |-> d.status, id |-> id]
  /\ UNCHANGED <<orders, buyers, nextId, upstream, sync, page, retry, others>>

\* the ids of the stored buyers
StoredBuyerIds == {b.id : b \in buyers}

\* "existing" of the duplicate check: .select('id').eq('buyer_no', buyerNo),
\* for PATCH with .neq('id', id); the error of the query is not read, a failed
\* lookup leaves existing null
ExistingBuyers(buyerNo, exceptId, lookupOk) ==
  IF lookupOk THEN {b \in buyers : b.buyer_no = buyerNo /\ b.id /= exceptId} ELSE {}

\* the duplicate check of POST and PATCH: buyer_no given and already stored
DuplicateNo(buyerNo, exceptId, lookupOk) ==
  Truthy(buyerNo) /\ ExistingBuyers(buyerNo, exceptId, lookupOk) /= {}

BuyerResp(op, status, id, error, body) ==
  [op |-> op, status |-> status, id |-> id, error |-> error, body |-> body]

\* POST /api/buyers; id is the id the database gives the new row
BuyersPOST(id, body, lookupOk, ok) ==
  /\ id \notin StoredBuyerIds
  /\ LET op == "POST /api/buyers"
         row == [id |-> id, buyer_no |-> body.buyer_no]
     IN IF ~body.name
        THEN /\ resp' = BuyerResp(op, 400, Null, "Buyer name is required", body)
             /\ buyers' = buyers
        ELSE IF DuplicateNo(body.buyer_no, Null, lookupOk)
        THEN /\ resp' = BuyerResp(op, 400, Null, "Buyer number already exists", body)
             /\ buyers' = buyers
        ELSE IF ~ok
        THEN /\ resp' = BuyerResp(op, 400, Null, "database error", body)
             /\ buyers' = buyers
        ELSE /\ resp' = BuyerResp(op, 200, id, "", body)
             /\ buyers' = buyers \cup {row}
  /\ UNCHANGED <<orders, blocks, nextId, upstream, sync, page, retry, others>>

\* PATCH /api/buyers; body.id is Null when the body has no id
BuyersPATCH(body, lookupOk, ok) ==
  /\ LET op == "PATCH /api/buyers"
         found == {b \in buyers : b.id = body.id}
     IN IF body.id = Null
        THEN /\ resp' = BuyerResp(op, 400, Null, "Buyer ID is required", body)
             /\ buyers' = buyers
        ELSE IF DuplicateNo(body.buyer_no, body.id, lookupOk)
        THEN /\ resp' = BuyerResp(op, 400, Null, "Buyer number already exists", body)
             /\ buyers' = buyers
        ELSE IF ~ok \/ found = {}
        THEN /\ resp' = BuyerResp(op, 400, Null, "database error", body)
             /\ buyers' = buyers
        ELSE /\ resp' = BuyerResp(op, 200, body.id, "", body)
             /\ buyers' = (buyers \ found) \cup
                             {[b EXCEPT !.buyer_no = IF Truthy(body.buyer_no)
                                                     THEN body.buyer_no ELSE @] : b \in found}
  /\ UNCHANGED <<orders, blocks, nextId, upstream, sync, page, retry, others>>

BuyersDELETE(id, checkOk, ok) ==
  /\ LET d == DeleteDecision("buyer_id", id, checkOk, ok)
     IN /\ buyers' = IF d.deleted THEN {b \in buyers : b.id /= id} ELSE buyers
        /\ resp' = [op |-> "DELETE /api/buyers", status |-> d.status, id |-> id]
  /\ UNCHANGED <<orders, blocks, nextId, upstream, sync, page, retry, others>>

\* ------------------------------------------------------------ specifications
\* request bodies of PATCH /api/orders used while a sync may run
SyncPatchBodies ==
  { [block_id |-> 1, buyer_id |-> 1, payment_1 |-> 1, payment_status |-> "Deposit Paid"] }

\* sync endpoint, Shopify, and edits / deletions of the synced rows
NextSync ==
  \/ \E f \in BOOLEAN, full \in BOOLEAN, b \in BatchSizes : SyncStart(f, full, b)
  \/ \E ok \in BOOLEAN : SyncFetch(ok)
  \/ \E l \in BOOLEAN, w \in BOOLEAN : SyncProcess(l, w)
  \/ SyncBatchDone
  \/ SyncDelay
  \/ \E n \in OrderNumbers : UpstreamTouch(n)
  \/ \E n \in OrderNumbers, u \in SyncPatchBodies : OrdersPATCH(n, u, TRUE)
  \/ \E n \in OrderNumbers : OrdersDELETE(n, TRUE)

SpecSync == Init /\ [][NextSync]_vars

\* request bodies of PATCH /api/orders: assign a block or a buyer
CrudPatchBodies ==
  {[block_id |-> b] : b \in BlockIds \cup {Null}} \cup
  {[buyer_id |-> y] : y \in BuyerIds \cup {Null}}

\* the CRUD route handlers over manual orders, blocks and buyers
Next ==
  \/ \E b \in blocks \cup {Null}, y \in StoredBuyerIds \cup {Null}, ok \in BOOLEAN :
       OrdersPOST(ManualOrder(b, y), ok)
  \/ \E id \in 1..MaxManualId, u \in CrudPatchBodies, ok \in BOOLEAN : OrdersPATCH(id, u, ok)
  \/ \E id \in 1..MaxManualId, ok \in BOOLEAN : OrdersDELETE(id, ok)
  \/ \E id \in BlockIds, ok \in BOOLEAN : BlocksPOST(id, ok)
  \/ \E id \in BlockIds, c \in BOOLEAN, ok \in BOOLEAN : BlocksDELETE(id, c, ok)
  \/ \E id \in BuyerIds, ok \in BOOLEAN :
       BuyersPOST(id, [name |-> TRUE, buyer_no |-> Null], TRUE, ok)
  \/ \E id \in BuyerIds, c \in BOOLEAN, ok \in BOOLEAN : BuyersDELETE(id, c, ok)

Spec == Init /\ [][Next]_vars

\* request bodies of POST and PATCH /api/buyers
BuyerPostBodies == [name : BOOLEAN, buyer_no : BuyerNos \cup {Null}]
BuyerPatchBodies == [id : AllBuyerIds \cup {Null}, buyer_no : BuyerNos \cup {Null}]

\* the buyers route handlers over buyers with buyer numbers
NextBuyers ==
  \/ \E id \in AllBuyerIds, body \in BuyerPostBodies, l \in BOOLEAN, ok \in BOOLEAN :
       BuyersPOST(id, body, l, ok)
  \/ \E body \in BuyerPatchBodies, l \in BOOLEAN, ok \in BOOLEAN : BuyersPATCH(body, l, ok)
  \/ \E id \in AllBuyerIds, c \in BOOLEAN, ok \in BOOLEAN : BuyersDELETE(id, c, ok)

SpecBuyers == Init /\ [][NextBuyers]_vars

\* --------------------------------------- retryOperation (lib/shopify-api.ts)
\* what one HTTP exchange with Shopify can end in; retryAfter is the
\* Retry-After header of a 429 (Null when the header is absent)
HttpOutcomes ==
  [type : {"http"}, status : {200, 401, 500}, retryAfter : {Null}] \cup
  [type : {"http"}, status : {429}, retryAfter : {Null, 2}] \cup
  [type : {"abort", "network"}, status : {0}, retryAfter : {Null}]

\* the operation passed to retryOperation by fetchShopifyOrders: the error it
\* throws for an HTTP outcome (NoErr when it returns the response)
OperationError(h) ==
  IF h.type = "abort" THEN [kind |-> "ShopifyAPIError", status |-> 408, retryAfter |-> Null]
  ELSE IF h.type = "network" THEN [kind |-> "Error", status |-> 0, retryAfter |-> Null]
  ELSE IF h.status = 200 THEN NoErr
  ELSE IF h.status = 429
       THEN [kind |-> "ShopifyAPIError", status |-> 429,
             retryAfter |-> IF h.retryAfter = Null THEN 5 ELSE h.retryAfter]
       ELSE [kind |-> "ShopifyAPIError", status |-> h.status, retryAfter |-> Null]

\* variant: only rate-limit responses are retried
RethrownUnlessRateLimit(error, attempts) ==
  ~(error.kind = "ShopifyAPIError" /\ error.status = 429) \/ attempts <= 1

\* variant: the attempts check is off by one
RethrownOffByOne(error, attempts) ==
  IF error.kind = "ShopifyAPIError"
  THEN error.status = 401 \/ attempts <= 0
  ELSE attempts <= 0

\* variant: an authentication failure is retried like any other error
RethrownWhenOutOfAttempts(error, attempts) == attempts <= 1

\* the catch block of retryOperation: is the error rethrown to the caller?
Rethrown(error, attempts) ==
  IF error.kind = "ShopifyAPIError"
  THEN error.status = 401 \/ attempts <= 1
  ELSE attempts <= 1

\* the delay before the next attempt
RetryDelay(error, delay) ==
  IF error.kind = "ShopifyAPIError" /\ Truthy(error.retryAfter)
  THEN error.retryAfter * 1000
  ELSE delay

RetryStart ==
  /\ retry.pc \in {"idle", "returned", "thrown"}
  /\ retry' = [NoRetry EXCEPT !.pc = "calling", !.attempts = RETRY_ATTEMPTS,
                              !.delay = RETRY_DELAY]
  /\ UNCHANGED <<orders, blocks, buyers, nextId, upstream, sync, resp, page, others>>

\* "return await operation()" and the catch block around it
RetryCall(h) ==
  /\ retry.pc = "calling"
  /\ LET error == OperationError(h)
         r == [retry EXCEPT !.calls = @ + 1, !.err = error,
                            !.log = Append(@, error.status)]
     IN retry' =
          IF error = NoErr THEN [r EXCEPT !.pc = "returned"]
          ELSE IF Rethrown(error, retry.attempts) THEN [r EXCEPT !.pc = "thrown"]
          ELSE [r EXCEPT !.pc = "sleeping",
                         !.slept = Append(@, RetryDelay(error, retry.delay))]
  /\ UNCHANGED <<orders, blocks, buyers, nextId, upstream, sync, resp, page, others>>

\* the timer fires: "return retryOperation(operation, attempts - 1, delay * 2)"
RetryWake ==
  /\ retry.pc = "sleeping"
  /\ retry' = [retry EXCEPT !.pc = "calling", !.attempts = @ - 1, !.delay = @ * 2]
  /\ UNCHANGED <<orders, blocks, buyers, nextId, upstream, sync, resp, page, others>>

NextRetry ==
  \/ RetryStart
  \/ \E h \in HttpOutcomes : RetryCall(h)
  \/ RetryWake

SpecRetry == Init /\ [][NextRetry]_vars

\* ------------------------------ RecordPaymentPage (payments/record/[id])
\* amounts typed into the payment-amount input
Amounts == {0, QuarterTotal, 2 * QuarterTotal, OrderTotal + 1}
PaymentTypes == {"deposit", "final", "additional"}
PaymentSlots == {"payment_1", "payment_2", "payment_3", "payment_4"}

\* calculatePaidAmount
CalculatePaidAmount(order) ==
  (IF Truthy(order.payment_1) THEN order.payment_1 ELSE 0) +
  (IF Truthy(order.payment_2) THEN order.payment_2 ELSE 0) +
  (IF Truthy(order.payment_3) THEN order.payment_3 ELSE 0) +
  (IF Truthy(order.payment_4) THEN order.payment_4 ELSE 0)

\* order.total_topay || 0
TotalAmount(order) == IF Truthy(order.total_topay) THEN order.total_topay ELSE 0

\* calculateOutstanding
CalculateOutstanding(order) == TotalAmount(order) - CalculatePaidAmount(order)

\* the payment slot handleSubmit writes
PaymentSlot(order, paymentType) ==
  IF paymentType = "deposit" \/ ~Truthy(order.payment_1) THEN "payment_1"
  ELSE IF paymentType = "final" \/ ~Truthy(order.payment_2) THEN "payment_2"
  ELSE IF ~Truthy(order.payment_3) THEN "payment_3"
  ELSE "payment_4"

\* variant: "Paid" only when the paid amount exceeds the total
NewPaymentStatusStrict(order, paymentType, paymentAmount) ==
  LET newPaidAmount == CalculatePaidAmount(order) + paymentAmount
      totalAmount   == TotalAmount(order)
  IN IF newPaidAmount > totalAmount THEN "Paid"
     ELSE IF newPaidAmount > 0
          THEN IF paymentType = "deposit" \/ 4 * newPaidAmount <= totalAmount
               THEN "Deposit Paid"
               ELSE "Partial Payment"
          ELSE order.payment_status

\* variant: the payment type is not looked at, only the 25% threshold
NewPaymentStatusByAmount(order, paymentType, paymentAmount) ==
  LET newPaidAmount == CalculatePaidAmount(order) + paymentAmount
      totalAmount   == TotalAmount(order)
  IN IF newPaidAmount >= totalAmount THEN "Paid"
     ELSE IF newPaidAmount > 0
          THEN IF 4 * newPaidAmount <= totalAmount
               THEN "Deposit Paid"
               ELSE "Partial Payment"
          ELSE order.payment_status

\* the payment_status handleSubmit stores (totals are multiples of 4, so
\* newPaidAmount <= totalAmount * 0.25 is 4 * newPaidAmount <= totalAmount)
NewPaymentStatus(order, paymentType, paymentAmount) ==
  LET newPaidAmount == CalculatePaidAmount(order) + paymentAmount
      totalAmount   == TotalAmount(order)
  IN IF newPaidAmount >= totalAmount THEN "Paid"
     ELSE IF newPaidAmount > 0
          THEN IF paymentType = "deposit" \/ 4 * newPaidAmount <= totalAmount
               THEN "Deposit Paid"
               ELSE "Partial Payment"
          ELSE order.payment_status

\* updatedOrder of handleSubmit
UpdatedOrder(order, paymentType, paymentAmount) ==
  [[order EXCEPT ![PaymentSlot(order, paymentType)] = paymentAmount]
     EXCEPT !.payment_status = NewPaymentStatus(order, paymentType, paymentAmount)]

\* loadOrderDetails: fetchOrderById, then the default type and amount (a
\* failed lookup leaves order null: "Order not found", no form is rendered)
LoadOrderDetails(id) ==
  /\ page.pc = "closed"
  /\ FetchOrderById(id) /= NoOrder
  /\ LET orderData == FetchOrderById(id)
     IN page' = IF ~Truthy(orderData.payment_1)
                THEN [pc |-> "open", saved |-> FALSE, order |-> orderData,
                      paymentType |-> "deposit",
                      paymentAmount |-> TotalAmount(orderData) \div 4]
                ELSE IF ~Truthy(orderData.payment_2)
                THEN [pc |-> "open", saved |-> FALSE, order |-> orderData,
                      paymentType |-> "final",
                      paymentAmount |-> (3 * TotalAmount(orderData)) \div 4]
                ELSE [pc |-> "open", saved |-> FALSE, order |-> orderData,
                      paymentType |-> "additional", paymentAmount |-> 0]
  /\ UNCHANGED <<orders, blocks, buyers, nextId, upstream, sync, resp, retry, others>>

HandlePaymentTypeChange(type) ==
  /\ page.pc = "open"
  /\ page' = [page EXCEPT !.paymentType = type,
                          !.paymentAmount =
                             IF type = "deposit" THEN TotalAmount(page.order) \div 4
                             ELSE IF type = "final" THEN CalculateOutstanding(page.order)
                             ELSE 0]
  /\ UNCHANGED <<orders, blocks, buyers, nextId, upstream, sync, resp, retry, others>>

\* onChange of the payment-amount input
SetPaymentAmount(a) ==
  /\ page.pc = "open"
  /\ page' = [page EXCEPT !.paymentAmount = a]
  /\ UNCHANGED <<orders, blocks, buyers, nextId, upstream, sync, resp, retry, others>>

\* the submit button is disabled while paymentAmount <= 0
SubmitEnabled == page.pc = "open" /\ page.paymentAmount > 0

\* handleSubmit; ok: upsertOrder did not throw
HandleSubmit(ok) ==
  /\ SubmitEnabled
  /\ LET updatedOrder == UpdatedOrder(page.order, page.paymentType, page.paymentAmount)
         saved == ok /\ Cardinality(SelectOrdersEq("id", updatedOrder.id)) = 1
     IN /\ orders' = IF saved THEN UpdateOrder(updatedOrder.id, updatedOrder) ELSE orders
        /\ page' = IF saved THEN [NoPage EXCEPT !.saved = TRUE] ELSE page
  /\ UNCHANGED <<blocks, buyers, nextId, upstream, sync, resp, retry, others>>

\* the payment page over one manual order
InitPay ==
  /\ orders = {[ManualOrder(Null, Null) EXCEPT !.id = 1]}
  /\ blocks = {}
  /\ buyers = {}
  /\ nextId = 2
  /\ upstream = [n \in OrderNumbers |->
                   [created_at |-> 1,
                    financial_status |-> IF n = 1 THEN "paid" ELSE "pending"]]
  /\ sync = IdleSync
  /\ resp = NoResp
  /\ page = NoPage
  /\ retry = NoRetry
  /\ auth = InitAuth
  /\ view = InitView
  /\ schema = {}
  /\ setup = IdleSetup
  /\ reqs = [r \in Requests |-> IdleReq]
  /\ del = NoDelete
  /\ tabs = [s \in Sessions |-> NoPage]
  /\ list = NoList
  /\ tbl = NoTable
  /\ form = NoForm

NextPay ==
  \/ LoadOrderDetails(1)
  \/ \E t \in PaymentTypes : HandlePaymentTypeChange(t)
  \/ \E a \in Amounts : SetPaymentAmount(a)
  \/ \E ok \in BOOLEAN : HandleSubmit(ok)

SpecPay == InitPay /\ [][NextPay]_vars

\* ------------------------------------- RoleGuard, AuthProvider (lib/auth.ts)
\* variant: every signed-in user passes the role check
HasRoleSignedIn(user, requiredRole) == user /= NoUser

\* hasRole
HasRole(user, requiredRole) ==
  IF user = NoUser THEN FALSE
  ELSE IF user.role = "admin" THEN TRUE
  ELSE user.role = requiredRole

\* the guarded pages: UsersPage and PortugalOfficePage
GuardedPages == {"users", "portugal-office"}
RequiredRole(pg) == IF pg = "users" THEN "admin" ELSE "portugal_office"
HasFallback(pg) == pg = "portugal-office"

\* what RoleGuard returns, and the route it pushes
RoleGuard(user, loading, requiredRole, fallback) ==
  IF loading THEN [shown |-> "loading", pushed |-> ""]
  ELSE IF user = NoUser THEN [shown |-> "nothing", pushed |-> "/login"]
  ELSE IF ~HasRole(user, requiredRole)
       THEN IF fallback
            THEN [shown |-> "fallback", pushed |-> ""]
            ELSE [shown |-> "nothing", pushed |-> "/unauthorized"]
  ELSE [shown |-> "children", pushed |-> ""]

\* the page pg rendered under the auth context a
Rendered(pg, a) ==
  IF pg \notin GuardedPages THEN InitView
  ELSE LET g == RoleGuard(a.user, a.loading, RequiredRole(pg), HasFallback(pg))
       IN [page |-> pg, shown |-> g.shown, pushed |-> g.pushed]

\* getCurrentUser over the auth state a: the session's user with the role of
\* its profile (viewer when the profile has none), null on any error
GetCurrentUser(a, sessionOk, profileOk) ==
  IF ~sessionOk \/ a.session = Null THEN NoUser
  ELSE IF ~profileOk \/ a.profiles[a.session] = "none" THEN NoUser
  ELSE [id |-> a.session,
        role |-> IF a.profiles[a.session] = "" THEN "viewer" ELSE a.profiles[a.session]]

\* the tables outside the auth subsystem
nonAuthVars == <<base, schema, setup, reqs, del, tabs, list, tbl, form>>

\* the browser loads the application: AuthProvider mounts
Reload ==
  /\ auth' = [auth EXCEPT !.user = NoUser, !.loading = TRUE]
  /\ view' = Rendered(view.page, auth')
  /\ UNCHANGED nonAuthVars

\* loadUser of AuthProvider's effect
LoadUser(sessionOk, profileOk) ==
  /\ auth.loading
  /\ auth' = [auth EXCEPT !.user = GetCurrentUser(auth, sessionOk, profileOk),
                          !.loading = FALSE]
  /\ view' = Rendered(view.page, auth')
  /\ UNCHANGED nonAuthVars

\* handleSignIn: signIn, then getCurrentUser on success
HandleSignIn(id, ok, sessionOk, profileOk) ==
  /\ auth' = IF ok /\ id \in auth.accounts
             THEN LET a == [auth EXCEPT !.session = id]
                  IN [a EXCEPT !.user = GetCurrentUser(a, sessionOk, profileOk)]
             ELSE auth
  /\ view' = Rendered(view.page, auth')
  /\ UNCHANGED nonAuthVars

\* handleSignOut
HandleSignOut(ok) ==
  /\ auth' = IF ok THEN [auth EXCEPT !.session = Null, !.user = NoUser] ELSE auth
  /\ view' = Rendered(view.page, auth')
  /\ UNCHANGED nonAuthVars

\* the user opens a guarded page
Navigate(pg) ==
  /\ view' = Rendered(pg, auth)
  /\ UNCHANGED <<auth, nonAuthVars>>

\* upsertUser, called from UsersManagement: the auth user is created first
\* when it is new, then the profile row is upserted
UpsertUser(id, role, createOk, profileupOk) ==
  /\ view.page = "users" /\ view.shown = "children"
  /\ LET new == id \notin auth.accounts
         created == [auth EXCEPT !.accounts = IF new /\ createOk THEN @ \cup {id} ELSE @]
     IN auth' = IF new /\ ~createOk THEN auth
                ELSE IF profileupOk THEN [created EXCEPT !.profiles[id] = role]
                ELSE created
  /\ UNCHANGED <<view, nonAuthVars>>

\* deleteUser, called from UsersManagement: the profile row, then the auth user
DeleteUser(id, profileOk, authOk) ==
  /\ view.page = "users" /\ view.shown = "children"
  /\ auth' = IF ~profileOk THEN auth
             ELSE IF ~authOk THEN [auth EXCEPT !.profiles[id] = "none"]
             ELSE [auth EXCEPT !.profiles[id] = "none", !.accounts = @ \ {id}]
  /\ UNCHANGED <<view, nonAuthVars>>

NextAuth ==
  \/ Reload
  \/ \E so \in BOOLEAN, po \in BOOLEAN : LoadUser(so, po)
  \/ \E id \in UserIds, ok \in BOOLEAN, so \in BOOLEAN, po \in BOOLEAN :
       HandleSignIn(id, ok, so, po)
  \/ \E ok \in BOOLEAN : HandleSignOut(ok)
  \/ \E pg \in GuardedPages : Navigate(pg)
  \/ \E id \in UserIds, r \in Roles, c \in BOOLEAN, po \in BOOLEAN : UpsertUser(id, r, c, po)
  \/ \E id \in UserIds, po \in BOOLEAN, ao \in BOOLEAN : DeleteUser(id, po, ao)

SpecAuth == Init /\ [][NextAuth]_vars

\* ------------------------------ applyDatabaseImprovements (db-migrations.ts)
Column(t, c) == [proc |-> "add_column_if_not_exists", table |-> t, object |-> t \o "." \o c]
Index(t, i)  == [proc |-> "create_index_if_not_exists", table |-> t, object |-> i]
Table(t)     == [proc |-> "create_table_if_not_exists", table |-> t, object |-> t]

\* the five steps of applyDatabaseImprovements: how each decides whether to
\* run, and the stored-procedure calls it makes in order
SetupGroups ==
  << [ check |-> "column", table |-> "orders",
       calls |-> << Column("orders", "last_updated"), Column("orders", "notes"),
                    Column("orders", "deposit_reminder_sent"),
                    Column("orders", "payment_confirmation_sent"),
                    Column("orders", "shipping_notification_sent"),
                    Column("orders", "email"),
                    Index("orders", "orders_shopify_id_idx"),
                    Index("orders", "orders_payment_status_idx"),
                    Index("orders", "orders_ship_status_idx"),
                    Index("orders", "orders_order_date_idx") >> ],
     [ check |-> "column", table |-> "buyers",
       calls |-> << Column("buyers", "last_updated"), Column("buyers", "notes"),
                    Index("buyers", "buyers_name_idx"),
                    Index("buyers", "buyers_buyer_no_idx") >> ],
     [ check |-> "column", table |-> "blocks",
       calls |-> << Column("blocks", "last_updated"), Column("blocks", "notes"),
                    Index("blocks", "blocks_ship_month_idx"),
                    Index("blocks", "blocks_ship_status_idx") >> ],
     [ check |-> "table", table |-> "email_notifications",
       calls |-> << Table("email_notifications"),
                    Index("email_notifications", "email_notifications_order_ref_idx"),
                    Index("email_notifications", "email_notifications_order_id_idx"),
                    Index("email_notifications", "email_notifications_email_type_idx"),
                    Index("email_notifications", "email_notifications_status_idx") >> ],
     [ check |-> "table", table |-> "users",
       calls |-> << Table("users"), Index("users", "users_email_idx"),
                    Index("users", "users_role_idx") >> ] >>

\* the tables that exist before any setup
BaseTables == {"orders", "buyers", "blocks"}
TableExists(t) == t \in BaseTables \/ t \in schema

\* variant: a procedure called for an object that exists removes it
ProcedureToggles(call) ==
  IF ~TableExists(call.table) /\ call.proc /= "create_table_if_not_exists" THEN schema
  ELSE IF call.object \in schema THEN schema \ {call.object}
  ELSE schema \cup {call.object}

\* the schema after a stored procedure ran: the object is added unless it
\* exists; a column or index on a missing table is an error, nothing is added
Procedure(call) ==
  IF ~TableExists(call.table) /\ call.proc /= "create_table_if_not_exists" THEN schema
  ELSE schema \cup {call.object}

\* does the step run its calls?  A column step runs them when the
\* check_column_exists call returned an error; a table step when the select
\* on the table failed with 42P01 (undefined table)
StepRuns(g, ok) ==
  IF g.check = "column" THEN ~ok ELSE ~TableExists(g.table)

\* a database call may fail while the failure budget lasts
MayFail(ok) == ok \/ setup.failures < MaxFailures

\* what a failed call leaves in the request state
Failed(s, ok) ==
  [s EXCEPT !.failed = @ \/ ~ok, !.failures = @ + (IF ok THEN 0 ELSE 1)]

nonSetupVars == <<base, auth, view, reqs, del, tabs, list, tbl, form>>

\* POST /api/db-setup calls applyDatabaseImprovements
SetupStart ==
  /\ setup.pc \in {"idle", "done"}
  /\ setup' = [setup EXCEPT !.pc = "check", !.group = 1, !.queue = <<>>,
                            !.success = FALSE, !.prevFailed = setup.failed,
                            !.failed = FALSE, !.changed = FALSE]
  /\ UNCHANGED <<schema, nonSetupVars>>

\* the check at the head of a step (ok: the call returned no error other than
\* 42P01 for a missing table)
SetupCheck(ok) ==
  /\ setup.pc = "check"
  /\ MayFail(ok)
  /\ LET g == SetupGroups[setup.group]
         s == Failed(setup, ok)
     IN setup' = IF StepRuns(g, ok)
                 THEN [s EXCEPT !.pc = "calls", !.queue = g.calls]
                 ELSE IF setup.group < Len(SetupGroups)
                 THEN [s EXCEPT !.group = @ + 1]
                 ELSE [s EXCEPT !.pc = "done", !.success = TRUE, !.runs = Min(@ + 1, 2)]
  /\ UNCHANGED <<schema, nonSetupVars>>

\* one awaited rpc call of a step; its error is not read
SetupCall(ok) ==
  /\ setup.pc = "calls"
  /\ setup.queue /= <<>>
  /\ MayFail(ok)
  /\ schema' = IF ok THEN Procedure(Head(setup.queue)) ELSE schema
  /\ setup' = [Failed(setup, ok) EXCEPT !.queue = Tail(@),
                                        !.changed = @ \/ schema' /= schema]
  /\ UNCHANGED nonSetupVars

\* the step is over: the next step, or { success: true }
SetupStepDone ==
  /\ setup.pc = "calls"
  /\ setup.queue = <<>>
  /\ setup' = IF setup.group < Len(SetupGroups)
              THEN [setup EXCEPT !.pc = "check", !.group = @ + 1]
              ELSE [setup EXCEPT !.pc = "done", !.success = TRUE, !.runs = Min(@ + 1, 2)]
  /\ UNCHANGED <<schema, nonSetupVars>>

NextSetup ==
  \/ SetupStart
  \/ \E ok \in BOOLEAN : SetupCheck(ok)
  \/ \E ok \in BOOLEAN : SetupCall(ok)
  \/ SetupStepDone

SpecSetup == Init /\ [][NextSetup]_vars

\* ------------------------- concurrent POST /api/sync requests (processOrders)
nonRaceVars ==
  <<blocks, buyers, upstream, sync, resp, page, retry, auth, view, schema, setup, del, tabs,
    list, tbl, form>>

\* a non-forced full sync request starts and fetches the upstream orders
RaceStart(r) ==
  /\ reqs[r].pc = "idle"
  /\ reqs' = [reqs EXCEPT ![r] = [IdleReq EXCEPT !.pc = "lookup", !.queue = FetchAll]]
  /\ UNCHANGED <<orders, nextId, nonRaceVars>>

\* the duplicate lookup of one iteration: .select().eq("shopify_id", shopifyId)
RaceLookup(r, lookupOk) ==
  /\ reqs[r].pc = "lookup"
  /\ reqs[r].queue /= <<>>
  /\ reqs' = [reqs EXCEPT ![r] =
                IF lookupOk
                THEN [@ EXCEPT !.pc = "write",
                               !.existing = ExistingOrders(Head(reqs[r].queue).shopify_id)]
                ELSE [@ EXCEPT !.queue = Tail(@), !.errors = @ + 1]]
  /\ UNCHANGED <<orders, nextId, nonRaceVars>>

\* the update, skip or insert of the iteration, on what the lookup returned
RaceWrite(r, writeOk) ==
  /\ reqs[r].pc = "write"
  /\ LET order == Head(reqs[r].queue)
         res == WriteOrder(order, reqs[r].existing, writeOk)
         conflict == reqs[r].existing = {} /\ writeOk /\ InsertConflict(order)
     IN /\ orders' = res.table
        /\ nextId' = res.nextId
        /\ reqs' = [reqs EXCEPT ![r] =
                      [@ EXCEPT !.pc = "lookup", !.queue = Tail(@), !.existing = {},
                                !.new     = @ + (IF res.outcome = "new" THEN 1 ELSE 0),
                                !.updated = @ + (IF res.outcome = "updated" THEN 1 ELSE 0),
                                !.skipped = @ + (IF res.outcome = "skipped" THEN 1 ELSE 0),
                                !.errors  = @ + (IF res.outcome = "error" THEN 1 ELSE 0),
                                !.conflicts = @ + (IF conflict THEN 1 ELSE 0)]]
  /\ UNCHANGED nonRaceVars

\* processOrders returned: the request answers
RaceDone(r) ==
  /\ reqs[r].pc = "lookup"
  /\ reqs[r].queue = <<>>
  /\ reqs' = [reqs EXCEPT ![r].pc = "done"]
  /\ UNCHANGED <<orders, nextId, nonRaceVars>>

NextRace ==
  \/ \E r \in Requests : RaceStart(r)
  \/ \E r \in Requests, ok \in BOOLEAN : RaceLookup(r, ok)
  \/ \E r \in Requests, ok \in BOOLEAN : RaceWrite(r, ok)
  \/ \E r \in Requests : RaceDone(r)
  \/ \E n \in OrderNumbers : UpstreamTouch(n)

SpecRace == Init /\ [][NextRace]_vars

\* ----------------- DELETE /api/blocks against assignOrderToBlock, by statement
nonDeleteVars ==
  <<buyers, nextId, upstream, sync, page, retry, auth, view, schema, setup, reqs, tabs,
    list, tbl, form>>

\* the first statement of DELETE /api/blocks: the lookup of linked orders,
\* answered with 500 or 400 when it fails or finds one
BlockDeleteCheck(id, checkOk) ==
  /\ del.pc = "idle"
  /\ IF ~checkOk
     THEN /\ resp' = [op |-> "DELETE /api/blocks", status |-> 500, id |-> id]
          /\ del' = del
     ELSE IF LinkedOrders("block_id", id) /= {}
     THEN /\ resp' = [op |-> "DELETE /api/blocks", status |-> 400, id |-> id]
          /\ del' = del
     ELSE /\ resp' = resp
          /\ del' = [pc |-> "checked", id |-> id]
  /\ UNCHANGED <<orders, blocks, nonDeleteVars>>

\* the second statement: .from('blocks').delete().eq('id', id), and the answer
BlockDeleteWrite(ok) ==
  /\ del.pc = "checked"
  /\ blocks' = IF ok THEN blocks \ {del.id} ELSE blocks
  /\ resp' = [op |-> "DELETE /api/blocks", status |-> IF ok THEN 204 ELSE 400, id |-> del.id]
  /\ del' = NoDelete
  /\ UNCHANGED <<orders, nonDeleteVars>>

\* assignOrderToBlock: .update({ block_id: blockId }).eq('id', orderId), for a
\* block picked from the blocks that exist (or none)
AssignOrderToBlock(orderId, blockId, ok) ==
  /\ blockId \in blocks \cup {Null}
  /\ orders' = IF ok
               THEN {r \in orders : r.id /= orderId} \cup
                    {[r EXCEPT !.block_id = blockId] : r \in SelectOrdersEq("id", orderId)}
               ELSE orders
  /\ UNCHANGED <<blocks, resp, del, nonDeleteVars>>

NextAssign ==
  \/ \E ok \in BOOLEAN : OrdersPOST(ManualOrder(Null, Null), ok)
  \/ \E id \in BlockIds, ok \in BOOLEAN : BlocksPOST(id, ok)
  \/ \E id \in BlockIds, c \in BOOLEAN : BlockDeleteCheck(id, c)
  \/ \E ok \in BOOLEAN : BlockDeleteWrite(ok)
  \/ \E o \in 1..MaxManualId, b \in BlockIds \cup {Null}, ok \in BOOLEAN :
       AssignOrderToBlock(o, b, ok)

SpecAssign == Init /\ [][NextAssign]_vars

\* ------------------- RecordPaymentPage in two sessions over the same order
nonTabVars ==
  <<blocks, buyers, nextId, upstream, sync, resp, page, retry, auth, view, schema, setup,
    reqs, del, list, tbl, form>>

\* loadOrderDetails in session s: the order as stored now, and the defaults
\* (each session opens the page once)
TabLoad(s, id) ==
  /\ tabs[s].pc = "closed"
  /\ FetchOrderById(id) /= NoOrder
  /\ LET orderData == FetchOrderById(id)
     IN tabs' = [tabs EXCEPT ![s] =
                   [pc |-> "open", saved |-> FALSE, order |-> orderData,
                    paymentType |-> IF ~Truthy(orderData.payment_1) THEN "deposit"
                                    ELSE IF ~Truthy(orderData.payment_2) THEN "final"
                                    ELSE "additional",
                    paymentAmount |-> IF ~Truthy(orderData.payment_1)
                                      THEN TotalAmount(orderData) \div 4
                                      ELSE IF ~Truthy(orderData.payment_2)
                                      THEN (3 * TotalAmount(orderData)) \div 4
                                      ELSE 0]]
  /\ UNCHANGED <<orders, nonTabVars>>

\* handlePaymentTypeChange in session s
TabType(s, type) ==
  /\ tabs[s].pc = "open"
  /\ tabs' = [tabs EXCEPT ![s].paymentType = type,
                          ![s].paymentAmount =
                             IF type = "deposit" THEN TotalAmount(tabs[s].order) \div 4
                             ELSE IF type = "final" THEN CalculateOutstanding(tabs[s].order)
                             ELSE 0]
  /\ UNCHANGED <<orders, nonTabVars>>

\* onChange of the payment-amount input in session s
TabAmount(s, a) ==
  /\ tabs[s].pc = "open"
  /\ tabs' = [tabs EXCEPT ![s].paymentAmount = a]
  /\ UNCHANGED <<orders, nonTabVars>>

\* handleSubmit in session s: updatedOrder is built from the order the session
\* loaded and upsertOrder writes the whole object, .update(order).eq('id', id);
\* the session keeps what it sent (pc "saved")
TabSubmit(s, ok) ==
  /\ tabs[s].pc = "open"
  /\ tabs[s].paymentAmount > 0
  /\ LET updatedOrder ==
           UpdatedOrder(tabs[s].order, tabs[s].paymentType, tabs[s].paymentAmount)
         saved == ok /\ Cardinality(SelectOrdersEq("id", updatedOrder.id)) = 1
     IN /\ orders' = IF saved THEN UpdateOrder(updatedOrder.id, updatedOrder) ELSE orders
        /\ tabs' = IF saved THEN [tabs EXCEPT ![s].pc = "saved", ![s].saved = TRUE]
                   ELSE tabs
  /\ UNCHANGED nonTabVars

NextTabs ==
  \/ \E s \in Sessions : TabLoad(s, 1)
  \/ \E s \in Sessions, t \in PaymentTypes : TabType(s, t)
  \/ \E s \in Sessions, a \in Amounts : TabAmount(s, a)
  \/ \E s \in Sessions, ok \in BOOLEAN : TabSubmit(s, ok)

SpecTabs == InitPay /\ [][NextTabs]_vars

\* ------------------------------------------- GET /api/orders (orders/route.ts)
\* texts are sequences of characters, an absent query parameter is "" (the
\* handler treats null and "" alike); the rows the table can hold
Texts == {<<"A", "1">>, <<"b", "2">>}
ShipStatuses == {"Pending", "Shipped"}
PaymentStatuses == {"No Payment", "Paid"}
ListedRows ==
  [id : {1, 2}, order_date : {1, 2}, order_ref : Texts, buyer : Texts,
   ship_status : ShipStatuses, payment_status : PaymentStatuses]

\* ILIKE compares without regard to case
Lower(c) == IF c = "A" THEN "a" ELSE IF c = "B" THEN "b" ELSE c
LowerText(t) == [i \in 1..Len(t) |-> Lower(t[i])]

\* column ILIKE %search%
ILike(text, search) ==
  \E i \in 0..(Len(text) - Len(search)) :
    \A j \in 1..Len(search) : LowerText(text)[i + j] = LowerText(search)[j]

\* filterConditions; each entry is one condition of the list handed to .or()
FilterConditions(params) ==
  (IF params.search /= <<>> THEN {"order_ref.ilike", "buyer.ilike"} ELSE {}) \cup
  (IF params.ship_status /= "" THEN {"ship_status.eq"} ELSE {}) \cup
  (IF params.payment_status /= "" THEN {"payment_status.eq"} ELSE {})

\* does a row satisfy one condition?
Satisfies(row, cond, params) ==
  IF cond = "order_ref.ilike" THEN ILike(row.order_ref, params.search)
  ELSE IF cond = "buyer.ilike" THEN ILike(row.buyer, params.search)
  ELSE IF cond = "ship_status.eq" THEN row.ship_status = params.ship_status
  ELSE row.payment_status = params.payment_status

\* query.or(filterConditions.join(',')): a row passes when one condition holds
Filtered(rows, params) ==
  IF FilterConditions(params) = {} THEN rows
  ELSE {r \in rows : \E cond \in FilterConditions(params) : Satisfies(r, cond, params)}

\* query.order('order_date', { ascending })
RECURSIVE SortedByDate(_, _)
SortedByDate(rows, ascending) ==
  IF rows = {} THEN <<>>
  ELSE LET first == CHOOSE r \in rows :
                      \A q \in rows : IF ascending THEN r.order_date <= q.order_date
                                                    ELSE r.order_date >= q.order_date
       IN <<first>> \o SortedByDate(rows \ {first}, ascending)

\* query.range(offset, offset + pageSize - 1)
RangeOf(rowSeq, offset, pageSize) ==
  SubSeq(rowSeq, offset + 1, Min(offset + pageSize, Len(rowSeq)))

ValidColumns ==
  {"order_ref", "order_date", "buyer", "total_topay", "payment_status", "ship_status"}

\* Math.ceil(count / pageSize), 0 for no row
TotalPagesOf(count, pageSize) ==
  IF count = 0 THEN 0 ELSE (count + pageSize - 1) \div pageSize

\* GET /api/orders; ok: the query returned no error
OrdersGET(params, ok) ==
  /\ list' =
       IF params.orderBy \notin ValidColumns \/ ~ok
       THEN [list EXCEPT !.params = params, !.status = 500, !.data = <<>>,
                         !.totalPages = 0]
       ELSE LET found == Filtered(list.rows, params)
                offset == (params.page - 1) * params.pageSize
            IN [list EXCEPT
                  !.params = params, !.status = 200,
                  !.data = RangeOf(SortedByDate(found, params.order = "asc"),
                                   offset, params.pageSize),
                  !.totalPages = TotalPagesOf(Cardinality(found), params.pageSize)]
  /\ UNCHANGED <<base, auth, view, schema, setup, reqs, del, tabs, tbl, form>>

\* the query strings the handler is called with
ListParams ==
  [page : {1, 2}, pageSize : {1}, orderBy : {"order_date"},
   order : {"asc", "desc"}, search : {<<>>, <<"a">>, <<"2">>},
   ship_status : {""} \cup ShipStatuses, payment_status : {"", "Paid"}]
  \cup {[NoParams EXCEPT !.orderBy = "id"], [NoParams EXCEPT !.pageSize = 10]}

\* the table holds one or two rows, with different ids and dates
InitList ==
  /\ InitElse
  /\ \E r1 \in {r \in ListedRows : r.id = 1 /\ r.order_date = 1},
        r2 \in {r \in ListedRows : r.id = 2 /\ r.order_date = 2 /\ r.buyer = r.order_ref
                                      /\ r.payment_status = "Paid"},
        two \in BOOLEAN :
       list = [NoList EXCEPT !.rows = IF two THEN {r1, r2} ELSE {r1}]
  /\ tbl = NoTable
  /\ form = NoForm

NextList == \E params \in ListParams, ok \in BOOLEAN : OrdersGET(params, ok)

SpecList == InitList /\ [][NextList]_vars

\* ------------------------------------------ NewOrderPage (orders/new/page.tsx)
\* what the price input can hold, and parseFloat(p.price) || 0
PriceTexts == {"0", "4", "8", "abc"}
ParseFloat(text) == IF text = "4" THEN 4 ELSE IF text = "8" THEN 8 ELSE 0

\* the values of Date.now() that product ids are made of
ProductIds == {1, 2}

\* the amounts typed into the shipping, VAT and first-payment inputs
FormAmounts == {0, 4}

\* totalQty: the quantities of the product rows added up
RECURSIVE TotalQty(_)
TotalQty(items) ==
  IF items = <<>> THEN 0 ELSE Head(items).quantity + TotalQty(Tail(items))

\* subtotal: price times quantity over the product rows
RECURSIVE Subtotal(_)
Subtotal(items) ==
  IF items = <<>> THEN 0
  ELSE ParseFloat(Head(items).price) * Head(items).quantity + Subtotal(Tail(items))

\* variant: shipping and VAT are left out of the total
CalculateTotalsProductsOnly(f) ==
  LET subtotal == Subtotal(f.products)
  IN [f EXCEPT !.total_qty = TotalQty(f.products), !.value = subtotal,
               !.total_amt = subtotal, !.total_topay = subtotal,
               !.deposit_25 = subtotal \div 4]

\* the "Calculate totals" effect (amounts are multiples of 4, so total * 0.25
\* is total \div 4)
CalculateTotals(f) ==
  LET subtotal == Subtotal(f.products)
      total    == subtotal + f.shipping + f.vat_amt
  IN [f EXCEPT !.total_qty = TotalQty(f.products), !.value = subtotal,
               !.total_amt = total, !.total_topay = total,
               !.deposit_25 = total \div 4]

nonFormVars == <<base, auth, view, schema, setup, reqs, del, tabs, list, tbl>>

\* the page is opened: the initial order, no product, and the first run of the
\* effect
FormOpen ==
  /\ form.pc = "closed"
  /\ form' = CalculateTotals(
                [pc |-> "open", products |-> <<>>, shipping |-> 0, vat_amt |-> 0,
                 payment_1 |-> 0, total_qty |-> 0, value |-> 0, total_amt |-> 0,
                 total_topay |-> 0, deposit_25 |-> 0])
  /\ UNCHANGED nonFormVars

\* addProduct; now: Date.now() (two clicks can fall into the same millisecond)
AddProduct(now) ==
  /\ form.pc = "open"
  /\ Len(form.products) < MaxProducts
  /\ form' = CalculateTotals(
                [form EXCEPT !.products =
                   Append(@, [id |-> now, quantity |-> 1, price |-> "0"])])
  /\ UNCHANGED nonFormVars

\* removeProduct: every row with that id goes
RemoveProduct(productId) ==
  /\ form.pc = "open"
  /\ \E i \in 1..Len(form.products) : form.products[i].id = productId
  /\ form' = CalculateTotals(
                [form EXCEPT !.products = SelectSeq(@, LAMBDA p : p.id /= productId)])
  /\ UNCHANGED nonFormVars

\* updateProduct for the quantity input (parseInt(value) || 1) and the price
\* input (the text as typed)
UpdateProduct(productId, field, value) ==
  /\ form.pc = "open"
  /\ \E i \in 1..Len(form.products) : form.products[i].id = productId
  /\ form' = CalculateTotals(
                [form EXCEPT !.products =
                   [i \in 1..Len(form.products) |->
                      IF form.products[i].id = productId
                      THEN [form.products[i] EXCEPT ![field] = value]
                      ELSE form.products[i]]])
  /\ UNCHANGED nonFormVars

\* handleChange; the effect runs when shipping or vat_amt changed
HandleChange(field, value) ==
  /\ form.pc = "open"
  /\ form' = IF field \in {"shipping", "vat_amt"} /\ form[field] /= value
             THEN CalculateTotals([form EXCEPT ![field] = value])
             ELSE [form EXCEPT ![field] = value]
  /\ UNCHANGED nonFormVars

NextForm ==
  \/ FormOpen
  \/ \E now \in ProductIds : AddProduct(now)
  \/ \E id \in ProductIds : RemoveProduct(id)
  \/ \E id \in ProductIds, q \in {1, 2} : UpdateProduct(id, "quantity", q)
  \/ \E id \in ProductIds, t \in PriceTexts : UpdateProduct(id, "price", t)
  \/ \E f \in {"shipping", "vat_amt", "payment_1"}, a \in FormAmounts : HandleChange(f, a)

SpecForm == Init /\ [][NextForm]_vars

\* ------------------------------------------ OrdersTable (OrdersTable.tsx)
\* columnFilters holds one filter: the search box's or the Filter menu's
SearchTerms == {"a", "b"}
SearchFilter(term) == [id |-> "order_ref", value |-> term]
MenuFilters == {[id |-> "ship_status", value |-> "Pending"], NoFilter}

\* getCacheKey for the state t, and the key prefetchNextPage builds
GetCacheKey(t) == CacheKey(t.pageIndex, t.desc, t.filter)
NextCacheKey(key) == [key EXCEPT !.pageIndex = @ + 1]

\* result.pagination.totalPages: two pages of orders, one of filtered orders
TotalPages(key) == IF key.filter = NoFilter THEN 2 ELSE 1

\* dataCache, a Map from cache key to { data, pageCount }
CacheHas(cache, key) == \E e \in cache : e.key = key
CacheGet(cache, key) == CHOOSE e \in cache : e.key = key
CacheSet(cache, key, epoch) ==
  {e \in cache : e.key /= key} \cup
  {[key |-> key, data |-> Rows(key, epoch), pageCount |-> TotalPages(key)]}

\* a request to /api/orders in flight; isMounted is the flag of the effect run
\* that issued a fetch
Request(kind, key, isMounted) == [kind |-> kind, key |-> key, isMounted |-> isMounted]

\* prefetchNextPage up to its fetch: the requests it issues (one or none),
\* with the pageCount and dataCache of the render it was created in
PrefetchNextPage(key, pageCount, cache) ==
  IF key.pageIndex + 1 >= pageCount \/ CacheHas(cache, NextCacheKey(key)) THEN {}
  ELSE {Request("prefetch", NextCacheKey(key), FALSE)}

\* the requests join the ones in flight; sent holds the keys asked for in
\* this step, requested and repeated the keys asked for once and more than once
Issue(t, requests) ==
  [t EXCEPT !.inflight = @ \cup requests,
            !.sent = {r.key : r \in requests},
            !.requested = @ \cup {r.key : r \in requests},
            !.repeated = @ \cup ({r.key : r \in requests} \cap t.requested)]

\* the cleanup of the previous run of the fetch effect: isMounted = false
Cleanup(inflight) == {Request(r.kind, r.key, FALSE) : r \in inflight}

\* variant: a cached page is fetched again
FetchOrdersAlways(t) ==
  Issue([t EXCEPT !.loading = TRUE, !.dirty = ~t.loading],
        {Request("fetch", GetCacheKey(t), TRUE)})

\* fetchOrders up to its first await, for the state t of the render
FetchOrders(t) ==
  LET cacheKey == GetCacheKey(t)
  IN IF CacheHas(t.cache, cacheKey)
     THEN LET cachedData == CacheGet(t.cache, cacheKey)
          IN Issue([t EXCEPT !.data = cachedData.data,
                             !.pageCount = cachedData.pageCount,
                             !.loading = FALSE,
                             !.dirty = \/ t.data /= cachedData.data
                                       \/ t.pageCount /= cachedData.pageCount
                                       \/ t.loading],
                   PrefetchNextPage(cacheKey, t.pageCount, t.cache))
     ELSE Issue([t EXCEPT !.loading = TRUE, !.dirty = ~t.loading],
                {Request("fetch", cacheKey, TRUE)})

nonTableVars == <<base, auth, view, schema, setup, reqs, del, tabs, list, form>>

\* the orders page mounts SyncShopify and OrdersTable: the sync request is sent,
\* the table starts loading, the debounce timer for the empty term is set and
\* the fetch effect is due
Mount ==
  /\ tbl.pc = "unmounted"
  /\ tbl' = [NoTable EXCEPT !.pc = "mounted",
                            !.timers = {[term |-> "", elapsed |-> 0]},
                            !.dirty = TRUE, !.syncStatus = "syncing"]
  /\ UNCHANGED nonTableVars

\* the commit of a render whose state changed: the cleanup of the previous run
\* of the fetch effect, then the new run
RenderEffect ==
  /\ tbl.pc = "mounted" /\ tbl.dirty
  /\ tbl' = FetchOrders([tbl EXCEPT !.inflight = Cleanup(@)])
  /\ UNCHANGED nonTableVars

\* variant: the timer of the term being replaced is left running
SearchInputKeepsTimer(term) ==
  /\ tbl.pc = "mounted" /\ ~tbl.dirty /\ tbl.events < MaxEvents /\ ~tbl.loading
  /\ term /= tbl.localSearchTerm
  /\ tbl' = [tbl EXCEPT !.localSearchTerm = term,
                        !.timers = @ \cup {[term |-> term, elapsed |-> 0]},
                        !.cleared = @ \cup {t.term : t \in tbl.timers},
                        !.dirty = TRUE,
                        !.events = @ + 1]
  /\ UNCHANGED nonTableVars

\* onChange of the search box (disabled while loading) and the debounce
\* effect of the render that follows: clearTimeout, then a new timer
SearchInput(term) ==
  /\ tbl.pc = "mounted" /\ ~tbl.dirty /\ tbl.events < MaxEvents /\ ~tbl.loading
  /\ term /= tbl.localSearchTerm
  /\ tbl' = [tbl EXCEPT !.localSearchTerm = term,
                        !.timers = {[term |-> term, elapsed |-> 0]},
                        !.cleared = @ \cup {t.term : t \in tbl.timers},
                        !.dirty = TRUE,
                        !.events = @ + 1]
  /\ UNCHANGED nonTableVars

\* the debounce delay passes; a timer that is due fires first
Tick ==
  /\ tbl.pc = "mounted" /\ ~tbl.dirty
  /\ tbl.timers /= {}
  /\ \A t \in tbl.timers : t.elapsed < DEBOUNCE_MS
  /\ tbl' = [tbl EXCEPT !.timers =
               {[t EXCEPT !.elapsed = @ + DEBOUNCE_MS] : t \in tbl.timers}]
  /\ UNCHANGED nonTableVars

\* the callback of handleSearchChange's setTimeout
TimerFire(timer) ==
  /\ tbl.pc = "mounted" /\ ~tbl.dirty
  /\ timer \in tbl.timers /\ timer.elapsed >= DEBOUNCE_MS
  /\ tbl' = IF timer.term /= ""
            THEN [tbl EXCEPT !.timers = @ \ {timer}, !.pageIndex = 0, !.desc = TRUE,
                             !.filter = SearchFilter(timer.term), !.dirty = TRUE]
            ELSE [tbl EXCEPT !.timers = @ \ {timer}, !.filter = NoFilter,
                             !.dirty = TRUE]
  /\ UNCHANGED nonTableVars

\* an entry of the Filter menu (the button is disabled while loading)
FilterMenu(filter) ==
  /\ tbl.pc = "mounted" /\ ~tbl.dirty /\ tbl.events < MaxEvents /\ ~tbl.loading
  /\ tbl' = [tbl EXCEPT !.pageIndex = 0, !.desc = TRUE, !.filter = filter,
                        !.dirty = TRUE,
                        !.events = @ + 1]
  /\ UNCHANGED nonTableVars

\* the Order Date header button: column.toggleSorting
ToggleSorting ==
  /\ tbl.pc = "mounted" /\ ~tbl.dirty /\ tbl.events < MaxEvents /\ ~tbl.loading
  /\ tbl' = [tbl EXCEPT !.desc = ~@, !.dirty = TRUE,
                        !.events = @ + 1]
  /\ UNCHANGED nonTableVars

\* table.nextPage() and table.previousPage(), enabled by getCanNextPage and
\* getCanPreviousPage
NextPage ==
  /\ tbl.pc = "mounted" /\ ~tbl.dirty /\ tbl.events < MaxEvents
  /\ tbl.pageIndex + 1 < tbl.pageCount
  /\ tbl' = [tbl EXCEPT !.pageIndex = @ + 1, !.dirty = TRUE,
                        !.events = @ + 1]
  /\ UNCHANGED nonTableVars

PreviousPage ==
  /\ tbl.pc = "mounted" /\ ~tbl.dirty /\ tbl.events < MaxEvents
  /\ tbl.pageIndex > 0
  /\ tbl' = [tbl EXCEPT !.pageIndex = @ - 1, !.dirty = TRUE,
                        !.events = @ + 1]
  /\ UNCHANGED nonTableVars

\* the answer to a prefetch request: a new Map with the page, or nothing
PrefetchResponse(r, ok) ==
  /\ tbl.pc = "mounted" /\ ~tbl.dirty
  /\ r \in tbl.inflight /\ r.kind = "prefetch"
  /\ tbl' = IF ok
            THEN [tbl EXCEPT !.inflight = @ \ {r},
                             !.cache = CacheSet(@, r.key, tbl.epoch),
                             !.dirty = TRUE]
            ELSE [tbl EXCEPT !.inflight = @ \ {r}]
  /\ UNCHANGED nonTableVars

\* the answer to a fetch request.  Not ok: the rows and the page count are
\* emptied whatever isMounted is.  Ok: dropped unless isMounted; else the
\* page is cached and shown and prefetchNextPage runs with the pageCount and
\* dataCache of the effect run; loading ends unless a prefetch is awaited
FetchResponse(r, ok) ==
  /\ tbl.pc = "mounted" /\ ~tbl.dirty
  /\ r \in tbl.inflight /\ r.kind = "fetch"
  /\ LET t == [tbl EXCEPT !.inflight = @ \ {r}]
     IN tbl' =
          IF ~ok
          THEN [t EXCEPT !.data = NoRows, !.pageCount = 0,
                         !.loading = IF r.isMounted THEN FALSE ELSE @,
                         !.dirty = \/ tbl.data /= NoRows \/ tbl.pageCount /= 0
                                   \/ (r.isMounted /\ tbl.loading)]
          ELSE IF ~r.isMounted THEN t
          ELSE LET prefetch == PrefetchNextPage(r.key, tbl.pageCount, tbl.cache)
               IN Issue([t EXCEPT !.cache = CacheSet(@, r.key, tbl.epoch),
                                  !.data = Rows(r.key, tbl.epoch),
                                  !.pageCount = TotalPages(r.key),
                                  !.loading = IF prefetch = {} THEN FALSE ELSE @,
                                  !.dirty = TRUE],
                        prefetch)
  /\ UNCHANGED nonTableVars

\* POST /api/sync has written the orders table
SyncWritten ==
  /\ tbl.pc = "mounted" /\ tbl.syncStatus = "syncing" /\ tbl.epoch = 0
  /\ tbl' = [tbl EXCEPT !.epoch = 1]
  /\ UNCHANGED nonTableVars

\* the event SyncShopify dispatches, and the name OrdersPage listens for: it
\* imports SHOPIFY_SYNC_COMPLETE_EVENT from SyncShopify, which does not export
\* it, so the name is undefined
SHOPIFY_SYNC_COMPLETE_EVENT == "shopify-sync-complete"
PageListensFor == "undefined"

\* the answer to POST /api/sync reaches SyncShopify: on success the
\* shopify-sync-complete event.  handleSyncComplete of OrdersTable adds one to
\* refreshTrigger; handleSync of OrdersPage, when it hears the event, changes
\* the table's key, which mounts a new table
SyncResponse(ok) ==
  /\ tbl.pc = "mounted" /\ ~tbl.dirty
  /\ tbl.syncStatus = "syncing"
  /\ ok => tbl.epoch = 1
  /\ tbl' = IF ~ok THEN [tbl EXCEPT !.syncStatus = "error"]
            ELSE IF PageListensFor = SHOPIFY_SYNC_COMPLETE_EVENT
            THEN [NoTable EXCEPT !.pc = "mounted",
                                 !.timers = {[term |-> "", elapsed |-> 0]},
                                 !.dirty = TRUE, !.syncStatus = "success",
                                 !.epoch = tbl.epoch, !.events = tbl.events,
                                 !.requested = tbl.requested,
                                 !.repeated = tbl.repeated]
            ELSE [tbl EXCEPT !.syncStatus = "success", !.refreshTrigger = @ + 1,
                             !.dirty = TRUE]
  /\ UNCHANGED nonTableVars

\* what the table does by itself: rendering, the debounce timer, the answers
TableStep ==
  \/ Mount
  \/ RenderEffect
  \/ Tick
  \/ \E timer \in tbl.timers : TimerFire(timer)
  \/ \E r \in tbl.inflight, ok \in BOOLEAN : PrefetchResponse(r, ok)
  \/ \E r \in tbl.inflight, ok \in BOOLEAN : FetchResponse(r, ok)

\* the table under paging, sorting and the Filter menu
NextTable ==
  \/ TableStep
  \/ \E f \in MenuFilters : FilterMenu(f)
  \/ ToggleSorting
  \/ NextPage
  \/ PreviousPage

SpecTable == Init /\ [][NextTable]_vars

\* the table under typing into the search box
NextSearch ==
  \/ TableStep
  \/ \E term \in SearchTerms \cup {""} : SearchInput(term)

SpecSearch == Init /\ [][NextSearch]_vars

\* the table while the Shopify sync runs and completes
NextRefresh ==
  \/ TableStep
  \/ NextPage
  \/ PreviousPage
  \/ SyncWritten
  \/ \E ok \in BOOLEAN : SyncResponse(ok)

SpecRefresh == Init /\ [][NextRefresh]_vars

\* renders, timers and answers happen in the end, and a fetch that is sent
\* again and again is answered with rows in the end; clicks need not happen
SpecRefreshLive ==
  /\ SpecRefresh
  /\ WF_vars(RenderEffect)
  /\ WF_vars(Tick \/ \E timer \in tbl.timers : TimerFire(timer))
  /\ WF_vars(\E r \in tbl.inflight, ok \in BOOLEAN :
               PrefetchResponse(r, ok) \/ FetchResponse(r, ok))
  /\ SF_vars(\E r \in tbl.inflight : r.isMounted /\ FetchResponse(r, TRUE))
  /\ WF_vars(SyncWritten \/ \E ok \in BOOLEAN : SyncResponse(ok))

\* ================================================================== claims
\* one loop iteration of processOrders was taken in this step
ProcessStep ==
  /\ sync.pc = "process" /\ sync.queue /= <<>>
  /\ sync'.pc = "process" /\ sync'.queue = Tail(sync.queue)

\* the rows of the orders table that carry the given external id
RowsOfShopifyId(s) == {r \in orders : r.shopify_id = s}

AtMostOneRowPerShopifyId == \A s \in ShopifyIds : Cardinality(RowsOfShopifyId(s)) <= 1

DeleteOfLinked(op, col, table) ==
  /\ resp'.op = op
  /\ resp'.id \in table
  /\ \E r \in orders : r[col] = resp'.id

\* C2 (as stated): a DELETE of a Block or Buyer that at least one order
\* references is answered with HTTP 400 and leaves the block / buyer and the
\* orders unchanged.
C2_Original ==
  [][ /\ DeleteOfLinked("DELETE /api/blocks", "block_id", blocks)
         => (resp'.status = 400 /\ UNCHANGED <<orders, blocks, buyers>>)
      /\ DeleteOfLinked("DELETE /api/buyers", "buyer_id", StoredBuyerIds)
         => (resp'.status = 400 /\ UNCHANGED <<orders, blocks, buyers>>) ]_vars

\* C2 (amended): such a DELETE is answered with an error, HTTP 400 or, when the
\* lookup of linked orders itself fails, HTTP 500, and leaves the block / buyer
\* and the orders unchanged.
C2_DeleteRejected ==
  [][ /\ DeleteOfLinked("DELETE /api/blocks", "block_id", blocks)
         => (resp'.status \in {400, 500} /\ UNCHANGED <<orders, blocks, buyers>>)
      /\ DeleteOfLinked("DELETE /api/buyers", "buyer_id", StoredBuyerIds)
         => (resp'.status \in {400, 500} /\ UNCHANGED <<orders, blocks, buyers>>) ]_vars

\* a DELETE of a block that an order references was rejected with 400
C2_Witness ==
  /\ resp.op = "DELETE /api/blocks" /\ resp.status = 400
  /\ resp.id \in blocks
  /\ \E r \in orders : r.block_id = resp.id

\* handleSubmit has just saved a payment
PaymentSaved == page.pc = "open" /\ page'.pc = "closed" /\ page'.saved

\* C3: when a payment is saved that brings the paid total (the amounts paid so
\* far plus the new amount, or the sum of the stored payment slots) to or above
\* total_topay, the stored payment_status is "Paid".
C3_PaidStatus ==
  [][ PaymentSaved =>
        LET stored == Single({r \in orders' : r.id = page.order.id})
        IN (\/ CalculatePaidAmount(page.order) + page.paymentAmount >= TotalAmount(page.order)
            \/ CalculatePaidAmount(stored) >= TotalAmount(stored))
           => stored.payment_status = "Paid" ]_vars

\* a payment was saved and the stored slots add up to the order total
C3_Witness ==
  /\ page.saved
  /\ \E r \in orders : /\ CalculatePaidAmount(r) >= TotalAmount(r)
                       /\ r.payment_1 = QuarterTotal /\ r.payment_2 = 3 * QuarterTotal
                       /\ r.payment_status = "Paid"

\* C4: after any sequence of recorded payments the total paid
\* (payment_1 + payment_2 + payment_3 + payment_4) does not exceed total_topay.
C4_PaidWithinTotal ==
  \A r \in orders : CalculatePaidAmount(r) <= TotalAmount(r)

\* POST /api/orders has just answered 200
OrderCreated == resp'.op = "POST /api/orders" /\ resp'.status = 200

\* C5: a successful POST /api/orders adds exactly one row, and that row is the
\* one fetchOrderById returns for the id in the response.
C5_OneRowById ==
  [][ OrderCreated =>
        /\ orders \subseteq orders'
        /\ Cardinality(orders') = Cardinality(orders) + 1
        /\ Single({r \in orders' : r.id = resp'.id}) \in orders' \ orders ]_vars

\* a manual order was created and is found by its id
C5_Witness ==
  /\ resp.op = "POST /api/orders" /\ resp.status = 200
  /\ FetchOrderById(resp.id) /= NoOrder
  /\ FetchOrderById(resp.id).source = "Manual"

\* the wrapped operation has just failed
CallFailed ==
  retry.pc = "calling" /\ retry'.calls = retry.calls + 1 /\ retry'.err /= NoErr

\* C6 (as stated): a failed request is retried only when it failed with
\* HTTP 429; every other error is surfaced without a retry.
C6_Original ==
  [][ CallFailed =>
        (retry'.pc = "sleeping" =>
           (retry'.err.kind = "ShopifyAPIError" /\ retry'.err.status = 429)) ]_vars

\* C6 (amended): a failed request is retried with backoff unless it failed with
\* HTTP 401 or no attempt is left: rate-limit responses, other HTTP errors,
\* timeouts and network errors are all retried.  The delay is the Retry-After
\* of a rate-limit response, else RETRY_DELAY doubled on every retry.
C6_RetryPolicy ==
  [][ CallFailed =>
        /\ retry'.pc = "sleeping"
             <=> (retry'.err.status /= 401 /\ retry'.calls < RETRY_ATTEMPTS)
        /\ retry'.pc /= "sleeping" => retry'.pc = "thrown"
        /\ retry'.pc = "sleeping" =>
             retry'.slept[Len(retry'.slept)] =
               IF retry'.err.status = 429
               THEN retry'.err.retryAfter * 1000
               ELSE RETRY_DELAY * 2 ^ retry.calls ]_vars

\* a server error (HTTP 500) is being retried
C6_Witness == retry.pc = "sleeping" /\ retry.err.status = 500

\* C7: the wrapped operation is invoked at most RETRY_ATTEMPTS times, and when
\* the last attempt fails the error is thrown to the caller.
C7_BoundedRetries ==
  /\ retry.calls <= RETRY_ATTEMPTS
  /\ (retry.calls = RETRY_ATTEMPTS /\ retry.err /= NoErr) => retry.pc = "thrown"

\* three rate-limited attempts, then the error is thrown
C7_Witness ==
  /\ retry.calls = RETRY_ATTEMPTS /\ retry.pc = "thrown"
  /\ retry.log = <<429, 429, 429>>

\* C8: an order of a batch that fails (it is neither inserted, updated nor
\* skipped) leaves the table as it is, rows inserted earlier in the batch
\* included, adds one to the error counter and lets the loop go on; a page that
\* cannot be fetched after earlier pages were processed leaves the table as it
\* is; and a request that processed orders returns success.
C8_PartialFailure ==
  [][ /\ (ProcessStep /\ sync'.new = sync.new /\ sync'.updated = sync.updated
                      /\ sync'.skipped = sync.skipped)
         => (orders' = orders /\ sync'.errors = sync.errors + 1)
      /\ (sync.pc = "fetch" /\ sync'.pc = "done" /\ ~sync.full)
         => (orders' = orders /\ sync'.success /\ sync'.errors >= sync.errors)
      /\ (sync.pc = "process" /\ sync'.pc = "done") => sync'.success ]_vars

\* a request returned success after an insert followed by a failed order
C8_Witness ==
  /\ sync.pc = "done" /\ sync.success
  /\ sync.last = "error" /\ sync.new = 1 /\ sync.errors = 1
  /\ Cardinality(orders) >= 1

\* C9 (as stated): an order row, once created, exists in every later state.
C9_Original ==
  [][ \A r \in orders : \E q \in orders' : q.id = r.id ]_vars

\* C9 (amended): an order row is destroyed only by a successful DELETE
\* /api/orders; the sync (its update path included) and PATCH /api/orders never
\* remove a row.
C9_OnlyDeleteDestroys ==
  [][ (\E r \in orders : \A q \in orders' : q.id /= r.id)
        => (resp'.op = "DELETE /api/orders" /\ resp'.status = 204) ]_vars

\* DELETE /api/orders has removed a synced row
C9_Witness ==
  /\ resp.op = "DELETE /api/orders" /\ resp.status = 204
  /\ sync.new >= 1
  /\ orders = {}

\* the order processOrders handles in this step, and its stored row(s)
HeadOrder == Head(sync.queue)
StoredOfHead == {r \in orders : r.shopify_id = HeadOrder.shopify_id}

C11_CountsAddUp ==
  (sync.pc = "done" /\ sync.success)
    => sync.new + sync.updated + sync.skipped + sync.errors = sync.total

\* C12: a guarded view shows its children only while the auth context holds a
\* signed-in user whose role is admin or the required role; a viewer sees
\* neither the Portugal Office view nor Users management, and a Portugal
\* Office user does not see Users management.
C12_GuardedViews ==
  /\ view.shown = "children" =>
        /\ auth.user /= NoUser /\ auth.session = auth.user.id /\ ~auth.loading
        /\ auth.user.role \in {"admin", RequiredRole(view.page)}
  /\ auth.user.role = "viewer" => view.shown /= "children"
  /\ (auth.user.role = "portugal_office" /\ view.page = "users") => view.shown /= "children"

\* a Portugal Office user sees the Portugal Office view
C12_Witness ==
  /\ view.page = "portugal-office" /\ view.shown = "children"
  /\ auth.user.role = "portugal_office"

\* POST or PATCH /api/buyers has just answered a request whose buyer_no is
\* held by a different buyer
DuplicateBuyerNoRequest ==
  /\ resp'.op \in {"POST /api/buyers", "PATCH /api/buyers"}
  /\ resp'.body.buyer_no /= Null
  /\ resp'.op = "POST /api/buyers" => resp'.body.name
  /\ resp'.op = "PATCH /api/buyers" => resp'.body.id \in StoredBuyerIds
  /\ \E b \in buyers :
        /\ b.buyer_no = resp'.body.buyer_no
        /\ resp'.op = "PATCH /api/buyers" => b.id /= resp'.body.id

\* C13: creating or updating a buyer with a buyer_no already held by a
\* different buyer is answered with HTTP 400 "Buyer number already exists" and
\* changes no row.
C13_DuplicateRejected ==
  [][ DuplicateBuyerNoRequest =>
        /\ resp'.status = 400 /\ resp'.error = "Buyer number already exists"
        /\ buyers' = buyers ]_vars

\* a second db-setup invocation in a row has returned
SecondSetupDone == setup.pc = "done" /\ setup.runs >= 2

CallForExisting ==
  /\ setup.pc = "calls" /\ setup.queue /= <<>>
  /\ setup'.queue = Tail(setup.queue)
  /\ Head(setup.queue).object \in schema

C16_Sequential ==
  ~sync.full =>
    /\ sync.pc = "fetch" =>
          /\ sync.queue = <<>>
          /\ sync.new + sync.updated + sync.skipped + sync.errors = sync.total
          /\ sync.delays = sync.pageNo - 1
    /\ sync.pc = "process" => sync.delays = sync.pageNo - 1
    /\ sync.pc = "delay" => (sync.queue = <<>> /\ sync.delays = sync.pageNo - 2)

\* the second page is about to be requested, after one page and one delay
C16_Witness ==
  /\ ~sync.full /\ sync.pc = "fetch"
  /\ sync.pageNo = 2 /\ sync.delays = 1 /\ sync.total = 1

\* C17: while two non-forced sync requests run concurrently over the same
\* upstream orders, every shopify_id has at most one row, whatever the order of
\* their duplicate lookups and inserts.
C17_RaceNoDuplicates ==
  \A s \in ShopifyIds : Cardinality({r \in orders : r.shopify_id = s}) <= 1

\* both requests found no row for an order and both inserted it: the second
\* insert was refused, one row per order is stored
C17_Witness ==
  /\ \A r \in Requests : reqs[r].pc = "done"
  /\ \E r \in Requests : reqs[r].conflicts >= 1
  /\ \A s \in ShopifyIds : Cardinality({r \in orders : r.shopify_id = s}) = 1

\* C18: no order references a block that does not exist, under every
\* interleaving of the statements of a block DELETE with an assignment of an
\* order to that block.
C18_NoDanglingBlock ==
  \A r \in orders : r.block_id /= Null => r.block_id \in blocks

\* C19: when two sessions have loaded the same order and each has recorded a
\* payment, the stored order holds both payments, in two different slots.
C19_BothPaymentsKept ==
  \A s \in Sessions, t \in Sessions :
    (s /= t /\ tabs[s].pc = "saved" /\ tabs[t].pc = "saved"
      /\ tabs[s].order = tabs[t].order)
    => \A r \in SelectOrdersEq("id", tabs[s].order.id) :
         \E k1 \in PaymentSlots, k2 \in PaymentSlots :
           /\ k1 /= k2
           /\ r[k1] = tabs[s].paymentAmount
           /\ r[k2] = tabs[t].paymentAmount

\* C20: a recorded payment raises the stored paid total (payment_1 + payment_2
\* + payment_3 + payment_4) by exactly the recorded amount.
C20_ExactIncrease ==
  [][PaymentSaved =>
       \A r \in orders, q \in orders' :
         (r.id = page.order.id /\ q.id = r.id)
         => CalculatePaidAmount(q) = CalculatePaidAmount(r) + page.paymentAmount]_vars

\* C25: when db-setup reports success and none of its database calls failed
\* (the stored procedures are installed), orders.last_updated exists.
C25_ColumnAdded ==
  (setup.pc = "done" /\ setup.success /\ ~setup.failed)
  => Column("orders", "last_updated").object \in schema

C24_SearchAndStatus ==
  (list.status = 200 /\ list.params.search /= <<>>
     /\ (list.params.ship_status /= "" \/ list.params.payment_status /= ""))
  => \A i \in 1..Len(list.data) :
       /\ ILike(list.data[i].order_ref, list.params.search)
            \/ ILike(list.data[i].buyer, list.params.search)
       /\ list.params.ship_status /= ""
            => list.data[i].ship_status = list.params.ship_status
       /\ list.params.payment_status /= ""
            => list.data[i].payment_status = list.params.payment_status

\* C28: in the open new-order form total_topay is the sum of price times
\* quantity over the current products plus shipping plus VAT, and deposit_25 is
\* a quarter of it.
C28_FormTotals ==
  form.pc = "open"
  => /\ form.total_topay =
          Subtotal(form.products) + form.shipping + form.vat_amt
     /\ 4 * form.deposit_25 = form.total_topay

\* a priced product is left after a removal, with shipping and VAT entered
C28_Witness ==
  /\ form.pc = "open"
  /\ Len(form.products) = 1 /\ form.products[1].id = 2
  /\ form.products[1].quantity = 2 /\ form.products[1].price = "4"
  /\ form.shipping = 4 /\ form.vat_amt = 4
  /\ form.total_topay = 16 /\ form.deposit_25 = 4

\* C21: once the sync has succeeded and its event was dispatched, the table
\* eventually displays rows read after the sync.
C21_RefreshAfterSync ==
  (tbl.syncStatus = "success") ~> (tbl.data.epoch = 1)

\* C22 (as stated): no cache key is ever requested twice.
C22_Original ==
  tbl.repeated = {}

\* C22 (amended): the effect and the answer it awaits send a request only for
\* a key the cache does not hold, so displaying a cached combination again
\* sends none.
C22_CachedNotRequested ==
  [][ (RenderEffect \/ \E r \in tbl.inflight, ok \in BOOLEAN : FetchResponse(r, ok))
      => \A key \in tbl'.sent : ~CacheHas(tbl.cache, key) ]_vars

\* the first page is displayed again after the second one; both were
\* requested once and came from the cache afterwards
C22_Witness ==
  /\ tbl.events = 2 /\ ~tbl.dirty /\ ~tbl.loading
  /\ tbl.pageIndex = 0
  /\ tbl.data = Rows(CacheKey(0, TRUE, NoFilter), 0)
  /\ tbl.requested = {CacheKey(0, TRUE, NoFilter), CacheKey(1, TRUE, NoFilter)}
  /\ tbl.repeated = {}
  /\ tbl.sent = {}
  /\ CacheHas(tbl.cache, CacheKey(1, TRUE, NoFilter))

\* C23: the answer to a request sent for another pagination, sorting or
\* filter state than the present one leaves the displayed rows and the page
\* count as they are.
C23_NoStaleReplace ==
  [][ \A r \in tbl.inflight, ok \in BOOLEAN :
        ((FetchResponse(r, ok) \/ PrefetchResponse(r, ok))
           /\ r.key /= GetCacheKey(tbl))
        => (tbl'.data = tbl.data /\ tbl'.pageCount = tbl.pageCount) ]_vars

\* C27: the search filter changes only to the term in the box, and only when
\* that term's timer has run the whole debounce delay; the effect sends
\* requests for the filter in force only.
C27_Debounced ==
  [][ /\ (tbl'.filter /= tbl.filter /\ tbl'.filter.id = "order_ref")
         => /\ tbl'.filter.value = tbl.localSearchTerm
            /\ \E t \in tbl.timers :
                 t.term = tbl.localSearchTerm /\ t.elapsed >= DEBOUNCE_MS
      /\ RenderEffect => \A key \in tbl'.sent : key.filter = tbl.filter ]_vars

\* "a" was replaced by "b" within the delay: "b" is the filter and was
\* requested, "a" never was
C27_Witness ==
  /\ "a" \in tbl.cleared
  /\ tbl.filter = SearchFilter("b")
  /\ \E key \in tbl.requested : key.filter = SearchFilter("b")
  /\ \A key \in tbl.requested : key.filter /= SearchFilter("a")

====
